---- MODULE Spec2Model ----
(***************************************************************************)
(* Coordination core of DeepfishAI/Studio: the message bus (src/src/bus.js)*)
(* and the consensus loop (src/unnamed/part_002).                          *)
(*                                                                         *)
(* The bus is a set of async functions.  Every `await` is a suspension     *)
(* point: an operation in flight is a record in `ops` whose pc names the   *)
(* await it is suspended on, and every action below runs one synchronous   *)
(* segment of the code, from one await to the next.  All Redis commands go *)
(* through one connection, which executes them in the order they are       *)
(* issued, so a command takes effect (and a read's reply is fixed) when    *)
(* the segment issues it; the reply is consumed by the next segment.       *)
(*                                                                         *)
(* JavaScript objects have identity: `heap` holds the context objects and  *)
(* busState.taskContexts maps a task id to a heap index.  JSON.parse makes *)
(* a new object; an operation in flight keeps the reference it obtained.   *)
(***************************************************************************)
EXTENDS Integers, Sequences, FiniteSets, TLC

\* ---------------------------------------------------------------- bounds
MaxTasks    == 3    \* task contexts ever created in one behaviour
MaxOps      == 3    \* bus operations (other than createTaskContext) ever called
MaxTime     == 2    \* distinct clock readings (milliseconds)
MaxRestarts == 1    \* process restarts
MaxInflight == 2    \* operations in flight at the same time
MaxMsgTasks == 1    \* tasks whose message log is exercised
MaxSessions == 1    \* consensus sessions ever created
MaxRound    == 2    \* rounds ever started in one session
MaxCfgRounds == 2   \* largest maxRounds a session is configured with
MaxDiscussions == 1 \* discussion threads ever opened in one session
MaxThreads  == 2    \* the same where the threads of one round are counted

VARIABLES
    redisOn,        \* bus.js:19-29   `redis` is non-null (fixed at module load)
    heap,           \* the context objects alive in this process
    taskContexts,   \* bus.js:34      busState.taskContexts: task id -> heap index, 0 = absent
    redisCtx,       \* Redis key task:<id>:context
    redisMsgs,      \* Redis list task:<id>:messages
    activeTasks,    \* Redis set active_tasks
    completedTasks, \* Redis set completed_tasks
    nextId,         \* number of task ids generated so far
    now,            \* the clock read by new Date()
    ops,            \* the operations in flight (a set of operation records)
    events,         \* what eventBus.emit has been called with, in order, per task id
    ret,            \* how the operation that finished last ended
    nOps,           \* operations called so far
    restarts,       \* restarts so far
    sessions,       \* part_002:20   the sessions Map: session id -> session object
    nextSession,    \* number of session ids generated so far
    cret,           \* how the consensus call made last ended (return value or error)
    emitted         \* what the consensus call made last passed to eventBus.emit

consensus == <<sessions, nextSession, cret, emitted>>

vars == <<redisOn, heap, taskContexts, redisCtx, redisMsgs, activeTasks,
          completedTasks, nextId, now, ops, events, ret, nOps, restarts,
          sessions, nextSession, cret, emitted>>

\* ---------------------------------------------------------------- values
NULL     == 0
TaskIds  == 1..MaxTasks
Orphan   == MaxTasks + 1          \* a task id that no context ever has
Agents   == {"mei"}
Requests == {"Build X"}

NoJson == [none |-> TRUE]         \* redis.get replied null / nothing held
IsJson(j) == "taskId" \in DOMAIN j
NoRet  == [kind |-> "none", taskId |-> NULL, outcome |-> "none"]

SessionIds == 1..MaxSessions
NoSession  == [none |-> TRUE]     \* sessions.get(id) is undefined
IsSession(x) == "id" \in DOMAIN x
NoCRet     == [op |-> "none", outcome |-> "none", error |-> "", status |-> "", round |-> 0,
               count |-> 0]

\* m.f for a field the object may lack (undefined reads as d)
Field(m, f, d) == IF f \in DOMAIN m THEN m[f] ELSE d

\* bus.js:40-43 sha256 of "<request>|<taskId>", truncated: injective on the pairs used here
generateContextHash(originalRequest, taskId) == <<originalRequest, taskId>>

\* bus.js:55-67 the context object createTaskContext builds
NewContext(taskId, originalRequest, parentTaskId) ==
    [ taskId           |-> taskId,
      contextHash      |-> generateContextHash(originalRequest, taskId),
      originalRequest  |-> originalRequest,
      messages         |-> <<>>,
      status           |-> "active",
      parentTaskId     |-> parentTaskId,
      childTaskIds     |-> <<>>,
      childrenComplete |-> 0,
      deliverables     |-> <<>> ]

\* JSON.parse(JSON.stringify(context)): every field of a context is JSON data
\* (strings, numbers, null, arrays, plain objects), so the value survives; what
\* is lost is the object's identity, and whatever changes after the snapshot.
Stringify(context) == context

Event(name, taskId, data) == [name |-> name, taskId |-> taskId, data |-> data]

\* id: the number of the call, which tells two like calls in flight apart
NewOp(kind, agentId, taskId, arg) ==
    [ id |-> nOps + nextId + 1, kind |-> kind, pc |-> "call", phase |-> "task", agentId |-> agentId,
      taskId |-> taskId, arg |-> arg, to |-> "", flag |-> FALSE, ref |-> 0,
      ctx |-> NULL, par |-> NULL, tmp |-> NoJson, msg |-> NoJson ]

\* a caller may start an operation while fewer than MaxInflight are in flight
CanCall == Cardinality(ops) < MaxInflight
InFlight(o, kind, pc) == o.kind = kind /\ o.pc = pc
Call(o) == ops' = ops \cup {o}
Resume(o, o2) == ops' = (ops \ {o}) \cup {o2}

Finish(o, outcome) ==
    /\ ops' = ops \ {o}
    /\ ret' = [kind |-> o.kind, taskId |-> o.taskId, outcome |-> outcome]

\* ---------------------------------------------------------------- Init
Init ==
    /\ redisOn \in BOOLEAN
    /\ heap = <<>>
    /\ taskContexts = [t \in TaskIds \cup {Orphan} |-> NULL]
    /\ redisCtx = [t \in TaskIds \cup {Orphan} |-> NoJson]
    /\ redisMsgs = [t \in TaskIds \cup {Orphan} |-> <<>>]
    /\ activeTasks = {}
    /\ completedTasks = {}
    /\ nextId = 0
    /\ now = 1
    /\ ops = {}
    /\ events = [t \in TaskIds \cup {Orphan} |-> <<>>]
    /\ ret = NoRet
    /\ nOps = 0
    /\ restarts = 0
    /\ sessions = [s \in SessionIds |-> NoSession]
    /\ nextSession = 0
    /\ cret = NoCRet
    /\ emitted = <<>>

\* ---------------------------------------------------------------- helpers
Emit(taskId, evs) == events' = [events EXCEPT ![taskId] = @ \o evs]

\* the task whose context the operation is fetching: its own, or (COMPLETE's
\* parent notification, bus.js:397) the parent of its own
Target(o) == IF o.phase = "task" THEN o.taskId ELSE heap[o.ctx].parentTaskId
SetRef(o, r) == IF o.phase = "task" THEN [o EXCEPT !.ctx = r] ELSE [o EXCEPT !.par = r]

\* bus.js:95-103 getTaskContext up to its first await: a memory hit returns the
\* cached object; a miss issues redis.get, or returns null without Redis
getTaskContextCall(o) ==
    LET t == Target(o) IN
    IF taskContexts[t] # NULL THEN SetRef([o EXCEPT !.pc = "got"], taskContexts[t])
    ELSE IF redisOn THEN [o EXCEPT !.pc = "get", !.tmp = redisCtx[t]]
    ELSE SetRef([o EXCEPT !.pc = "got"], NULL)

\* bus.js:104-107 the reply of redis.get: parse it and issue lrange, or return null
getTaskContextGet(o) ==
    /\ o.pc = "get"
    /\ Resume(o, IF IsJson(o.tmp)
                 THEN [o EXCEPT !.pc = "lrange",
                                !.tmp = [o.tmp EXCEPT !.messages = redisMsgs[Target(o)]]]
                 ELSE SetRef([o EXCEPT !.pc = "got"], NULL))
    /\ UNCHANGED <<consensus, redisOn, heap, taskContexts, redisCtx, redisMsgs, activeTasks,
                   completedTasks, nextId, now, events, ret, nOps, restarts>>

\* bus.js:108-112 the reply of lrange: the parsed object gets the messages and
\* replaces whatever busState.taskContexts holds for the id
getTaskContextLrange(o) ==
    /\ o.pc = "lrange"
    /\ heap' = Append(heap, o.tmp)
    /\ taskContexts' = [taskContexts EXCEPT ![Target(o)] = Len(heap) + 1]
    /\ Resume(o, SetRef([o EXCEPT !.pc = "got", !.tmp = NoJson], Len(heap) + 1))
    /\ UNCHANGED <<consensus, redisOn, redisCtx, redisMsgs, activeTasks, completedTasks,
                   nextId, now, events, ret, nOps, restarts>>

\* ---------------------------------------------------------------- createTaskContext
\* bus.js:72-78 a child registers with a parent that is in memory
RegisterChild(h, parentTaskId, taskId) ==
    IF parentTaskId # NULL /\ taskContexts[parentTaskId] # NULL
    THEN [h EXCEPT ![taskContexts[parentTaskId]].childTaskIds = Append(@, taskId)]
    ELSE h

\* bus.js:51-84 up to the await of redis.set (all of it without Redis)
createTaskContext(originalRequest, parentTaskId) ==
    /\ CanCall /\ nextId < MaxTasks
    /\ LET taskId  == nextId + 1
           context == NewContext(taskId, originalRequest, parentTaskId)
       IN /\ nextId' = taskId
          /\ heap' = Append(RegisterChild(heap, parentTaskId, taskId), context)
          /\ taskContexts' = [taskContexts EXCEPT ![taskId] = Len(heap) + 1]
          /\ IF redisOn
             THEN /\ redisCtx' = [redisCtx EXCEPT ![taskId] = Stringify(context)]
                  /\ Call([NewOp("createTaskContext", "", taskId, originalRequest)
                             EXCEPT !.pc = "set", !.ctx = Len(heap) + 1])
                  /\ UNCHANGED <<events, ret>>
             ELSE /\ Emit(taskId, <<Event("task_created", taskId, parentTaskId)>>)
                  /\ ret' = [kind |-> "createTaskContext", taskId |-> taskId, outcome |-> "ok"]
                  /\ UNCHANGED <<redisCtx, ops>>
    /\ UNCHANGED <<consensus, redisOn, redisMsgs, activeTasks, completedTasks, now, nOps, restarts>>

\* bus.js:83 redis.sadd('active_tasks', taskId)
createTaskContextSet(o) ==
    /\ InFlight(o, "createTaskContext", "set")
    /\ activeTasks' = activeTasks \cup {o.taskId}
    /\ Resume(o, [o EXCEPT !.pc = "sadd"])
    /\ UNCHANGED <<consensus, redisOn, heap, taskContexts, redisCtx, redisMsgs, completedTasks,
                   nextId, now, events, ret, nOps, restarts>>

\* bus.js:87-89
createTaskContextSadd(o) ==
    /\ InFlight(o, "createTaskContext", "sadd")
    /\ Emit(o.taskId, <<Event("task_created", o.taskId, heap[o.ctx].parentTaskId)>>)
    /\ Finish(o, "ok")
    /\ UNCHANGED <<consensus, redisOn, heap, taskContexts, redisCtx, redisMsgs, activeTasks,
                   completedTasks, nextId, now, nOps, restarts>>

\* ---------------------------------------------------------------- saveMessage
\* bus.js:145-154 push on the context object the caller holds, rpush to Redis
saveMessageHeap(ctx, message) == [heap EXCEPT ![ctx].messages = Append(@, message)]
saveMessageRedis(taskId, message) ==
    IF redisOn THEN [redisMsgs EXCEPT ![taskId] = Append(@, message)] ELSE redisMsgs

\* ---------------------------------------------------------------- COMPLETE
\* bus.js:396
HasParent(context) == context.parentTaskId # NULL
\* a faulty variant: the comparison is off by one, so the aggregate fires a child early
AllChildrenDoneEarly(parent) == parent.childrenComplete >= Len(parent.childTaskIds) - 1
\* bus.js:408
AllChildrenDone(parent) == parent.childrenComplete = Len(parent.childTaskIds)
\* bus.js:399-400
CountChild(parent, agentId, taskId, deliverable) ==
    [parent EXCEPT !.childrenComplete = @ + 1,
                   !.deliverables = Append(@, [agentId |-> agentId, taskId |-> taskId,
                                               deliverable |-> deliverable])]

\* an operation is called: it runs up to the first await of getTaskContext
CallOp(o) ==
    /\ CanCall /\ nOps < MaxOps
    /\ nOps' = nOps + 1
    /\ Call(getTaskContextCall(o))
    /\ UNCHANGED <<consensus, redisOn, heap, taskContexts, redisCtx, redisMsgs, activeTasks,
                   completedTasks, nextId, now, events, ret, restarts>>

\* bus.js:369-370
COMPLETE(agentId, taskId, deliverable) ==
    CallOp(NewOp("COMPLETE", agentId, taskId, deliverable))

\* bus.js:371-382 after getTaskContext: throw, or build the message and save it
COMPLETEGot(o) ==
    /\ InFlight(o, "COMPLETE", "got") /\ o.phase = "task"
    /\ IF o.ctx = NULL
       THEN /\ Finish(o, "throw")
            /\ UNCHANGED <<heap, redisMsgs>>
       ELSE LET message == [type |-> "COMPLETE", agentId |-> o.agentId,
                            taskId |-> o.taskId, content |-> o.arg,
                            contextHash |-> heap[o.ctx].contextHash, timestamp |-> now]
            IN /\ heap' = saveMessageHeap(o.ctx, message)
               /\ redisMsgs' = saveMessageRedis(o.taskId, message)
               /\ Resume(o, [o EXCEPT !.pc = "saved", !.msg = message])
               /\ UNCHANGED ret
    /\ UNCHANGED <<consensus, redisOn, taskContexts, redisCtx, activeTasks, completedTasks,
                   nextId, now, events, nOps, restarts>>

\* bus.js:408-418 compare the counter with the number of children, emit, return
COMPLETECheck(o, h) ==
    /\ IF AllChildrenDone(h[o.par])
       THEN Emit(h[o.ctx].parentTaskId,
                 <<Event("all_children_complete", h[o.ctx].parentTaskId,
                         h[o.par].deliverables)>>)
       ELSE UNCHANGED events
    /\ Finish(o, "ok")

\* bus.js:398-405 after getTaskContext(parentTaskId): count the child, save the parent
COMPLETEParent(o) ==
    IF o.par = NULL
    THEN /\ Finish(o, "ok")
         /\ UNCHANGED <<heap, redisCtx, events>>
    ELSE LET h == [heap EXCEPT ![o.par] = CountChild(@, o.agentId, o.taskId, o.arg)] IN
         /\ heap' = h
         /\ IF redisOn
            THEN /\ redisCtx' = [redisCtx EXCEPT ![h[o.ctx].parentTaskId] = Stringify(h[o.par])]
                 /\ Resume(o, [o EXCEPT !.pc = "pset"])
                 /\ UNCHANGED <<events, ret>>
            ELSE /\ COMPLETECheck(o, h)
                 /\ UNCHANGED redisCtx

\* bus.js:391-397 the three notifications, then the parent's getTaskContext
COMPLETEEmit(o, h) ==
    /\ Emit(o.taskId, <<Event("bus_message", o.taskId, o.msg),
                        Event("complete", o.taskId, o.msg),
                        Event("task_complete", o.taskId, o.arg)>>)
    /\ IF HasParent(h[o.ctx])
       THEN /\ Resume(o, getTaskContextCall([o EXCEPT !.phase = "parent"]))
            /\ UNCHANGED ret
       ELSE Finish(o, "ok")

\* a faulty variant: the status assignment is missing
MarkCompletedNot(context) == context
\* bus.js:383
MarkCompleted(context) == [context EXCEPT !.status = "completed"]

\* bus.js:383-386 status = 'completed', then redis.set of the context (with Redis)
COMPLETESaved(o) ==
    /\ InFlight(o, "COMPLETE", "saved")
    /\ LET h == [heap EXCEPT ![o.ctx] = MarkCompleted(@)] IN
       /\ heap' = h
       /\ IF redisOn
          THEN /\ redisCtx' = [redisCtx EXCEPT ![o.taskId] = Stringify(h[o.ctx])]
               /\ Resume(o, [o EXCEPT !.pc = "set"])
               /\ UNCHANGED <<events, ret>>
          ELSE /\ COMPLETEEmit(o, h)
               /\ UNCHANGED redisCtx
    /\ UNCHANGED <<consensus, redisOn, taskContexts, redisMsgs, activeTasks, completedTasks,
                   nextId, now, nOps, restarts>>

\* bus.js:387 redis.srem('active_tasks', taskId)
COMPLETESet(o) ==
    /\ InFlight(o, "COMPLETE", "set")
    /\ activeTasks' = activeTasks \ {o.taskId}
    /\ Resume(o, [o EXCEPT !.pc = "srem"])
    /\ UNCHANGED <<consensus, redisOn, heap, taskContexts, redisCtx, redisMsgs, completedTasks,
                   nextId, now, events, ret, nOps, restarts>>

\* bus.js:391-397 (with Redis: the segment after the await of srem)
COMPLETESrem(o) ==
    /\ InFlight(o, "COMPLETE", "srem")
    /\ COMPLETEEmit(o, heap)
    /\ UNCHANGED <<consensus, redisOn, heap, taskContexts, redisCtx, redisMsgs, activeTasks,
                   completedTasks, nextId, now, nOps, restarts>>

\* bus.js:398-405 (the segment after the parent's getTaskContext)
COMPLETEParentGot(o) ==
    /\ InFlight(o, "COMPLETE", "got") /\ o.phase = "parent"
    /\ COMPLETEParent(o)
    /\ UNCHANGED <<consensus, redisOn, taskContexts, redisMsgs, activeTasks, completedTasks,
                   nextId, now, nOps, restarts>>

\* bus.js:407-418 (with Redis: the segment after the await of the parent's redis.set)
COMPLETEParentSet(o) ==
    /\ InFlight(o, "COMPLETE", "pset")
    /\ COMPLETECheck(o, heap)
    /\ UNCHANGED <<consensus, redisOn, heap, taskContexts, redisCtx, redisMsgs, activeTasks,
                   completedTasks, nextId, now, nOps, restarts>>

\* ---------------------------------------------------------------- updateTaskStatus
Statuses == {"active", "completed", "failed"}

\* bus.js:122-123
updateTaskStatus(taskId, status) == CallOp(NewOp("updateTaskStatus", "", taskId, status))

\* bus.js:139
updateTaskStatusEmit(o) ==
    /\ Emit(o.taskId, <<Event("task_status_changed", o.taskId, o.arg)>>)
    /\ Finish(o, "ok")

\* bus.js:124-128 after getTaskContext: without a context the call returns and
\* does nothing; with one it writes the status and issues redis.set
updateTaskStatusGot(o) ==
    /\ InFlight(o, "updateTaskStatus", "got")
    /\ IF o.ctx = NULL
       THEN /\ Finish(o, "ok")
            /\ UNCHANGED <<heap, redisCtx, events>>
       ELSE LET h == [heap EXCEPT ![o.ctx].status = o.arg] IN
            /\ heap' = h
            /\ IF redisOn
               THEN /\ redisCtx' = [redisCtx EXCEPT ![o.taskId] = Stringify(h[o.ctx])]
                    /\ Resume(o, [o EXCEPT !.pc = "uset"])
                    /\ UNCHANGED <<events, ret>>
               ELSE /\ updateTaskStatusEmit(o)
                    /\ UNCHANGED redisCtx
    /\ UNCHANGED <<consensus, redisOn, taskContexts, redisMsgs, activeTasks, completedTasks,
                   nextId, now, nOps, restarts>>

\* bus.js:131-133 after redis.set: a terminal status issues srem
updateTaskStatusSet(o) ==
    /\ InFlight(o, "updateTaskStatus", "uset")
    /\ IF o.arg \in {"completed", "failed"}
       THEN /\ activeTasks' = activeTasks \ {o.taskId}
            /\ Resume(o, [o EXCEPT !.pc = "usrem"])
            /\ UNCHANGED <<events, ret>>
       ELSE /\ updateTaskStatusEmit(o)
            /\ UNCHANGED activeTasks
    /\ UNCHANGED <<consensus, redisOn, heap, taskContexts, redisCtx, redisMsgs,
                   completedTasks, nextId, now, nOps, restarts>>

\* bus.js:134 after srem: sadd('completed_tasks', taskId)
updateTaskStatusSrem(o) ==
    /\ InFlight(o, "updateTaskStatus", "usrem")
    /\ completedTasks' = completedTasks \cup {o.taskId}
    /\ Resume(o, [o EXCEPT !.pc = "usadd"])
    /\ UNCHANGED <<consensus, redisOn, heap, taskContexts, redisCtx, redisMsgs, activeTasks,
                   nextId, now, events, ret, nOps, restarts>>

\* bus.js:139 after sadd
updateTaskStatusSadd(o) ==
    /\ InFlight(o, "updateTaskStatus", "usadd")
    /\ updateTaskStatusEmit(o)
    /\ UNCHANGED <<consensus, redisOn, heap, taskContexts, redisCtx, redisMsgs, activeTasks,
                   completedTasks, nextId, now, nOps, restarts>>

\* ---------------------------------------------------------------- the message operations
\* DISPATCH, KNOWLEDGE, ASSERT, QUERY, VALIDATE, CORRECT, ACK, HANDOFF and BLOCKER
\* have one shape: getTaskContext, fail on null, build the message, saveMessage,
\* emit.  They differ in the message they build, in how they fail and in the
\* events they emit.
MessageKinds == {"DISPATCH", "KNOWLEDGE", "ASSERT", "QUERY", "VALIDATE", "CORRECT",
                 "ACK", "HANDOFF", "BLOCKER"}

\* a faulty variant: DISPATCH fails as quietly as KNOWLEDGE does
NotFoundQuiet(kind) == IF kind \in {"KNOWLEDGE", "DISPATCH"} THEN "silent" ELSE "throw"
\* bus.js:165,205,230,258,284,312,345,426 throw; bus.js:185 `return; // Silent fail`
NotFound(kind) == IF kind = "KNOWLEDGE" THEN "silent" ELSE "throw"

\* bus.js:167-174, 187-194, 207-214, 232-242, 260-268, 286-296, 323-329, 347-355, 428-435
Message(o, context) ==
    LET base == [type |-> o.kind, agentId |-> o.agentId, taskId |-> o.taskId,
                 content |-> o.arg, contextHash |-> context.contextHash,
                 timestamp |-> now]
    IN CASE o.kind = "KNOWLEDGE" ->
              [base EXCEPT !.content = [snippet |-> o.arg]]
         [] o.kind = "QUERY" ->
              [type |-> "QUERY", agentId |-> o.agentId, taskId |-> o.taskId,
               content |-> o.arg, targetAgents |-> <<o.to>>,
               contextHash |-> context.contextHash, timestamp |-> now,
               requiresAck |-> TRUE, acked |-> FALSE]
         [] o.kind = "VALIDATE" ->
              [type |-> "VALIDATE", agentId |-> o.agentId, taskId |-> o.taskId,
               content |-> o.arg, approved |-> o.flag,
               contextHash |-> context.contextHash, timestamp |-> now]
         [] o.kind = "CORRECT" ->
              [type |-> "CORRECT", agentId |-> o.agentId, taskId |-> o.taskId,
               content |-> o.arg, targetAgent |-> o.to,
               contextHash |-> context.contextHash, timestamp |-> now,
               requiresAck |-> TRUE, acked |-> FALSE]
         [] o.kind = "ACK" ->
              [type |-> "ACK", agentId |-> o.agentId, taskId |-> o.taskId,
               referencedMessage |-> o.ref, timestamp |-> now]
         [] o.kind = "HANDOFF" ->
              [type |-> "HANDOFF", agentId |-> o.agentId, toAgentId |-> o.to,
               taskId |-> o.taskId, content |-> o.arg,
               contextHash |-> context.contextHash, timestamp |-> now]
         [] OTHER -> base

\* bus.js:177-178, 197, 219-220, 247-248, 273-274, 301-302, 334-335, 360-361, 440-441
EventsOf(o) ==
    LET own == CASE o.kind = "DISPATCH" -> "dispatch" [] o.kind = "ASSERT" -> "assert"
                 [] o.kind = "QUERY" -> "query"       [] o.kind = "VALIDATE" -> "validate"
                 [] o.kind = "CORRECT" -> "correct"   [] o.kind = "ACK" -> "ack"
                 [] o.kind = "HANDOFF" -> "handoff"   [] OTHER -> "blocker"
    IN IF o.kind = "KNOWLEDGE"
       THEN <<Event("bus_message", o.taskId, o.msg)>>
       ELSE <<Event("bus_message", o.taskId, o.msg), Event(own, o.taskId, o.msg)>>

\* bus.js:315-317 messages.find(m => m.timestamp === messageId && m.requiresAck):
\* the index of the first match, 0 when there is none
FindAcked(messages, messageId) ==
    LET hits == {i \in 1..Len(messages) :
                   messages[i].timestamp = messageId
                   /\ Field(messages[i], "requiresAck", FALSE)}
    IN IF hits = {} THEN 0 ELSE CHOOSE i \in hits : \A j \in hits : i <= j

\* a faulty variant: every message that matches is marked, not the first
MarkAckedAll(messages, messageId) ==
    [i \in 1..Len(messages) |->
       IF messages[i].timestamp = messageId /\ Field(messages[i], "requiresAck", FALSE)
       THEN [messages[i] EXCEPT !.acked = TRUE] ELSE messages[i]]
\* bus.js:318-321 originalMessage.acked = true
MarkAcked(messages, messageId) ==
    LET i == FindAcked(messages, messageId)
    IN IF i = 0 THEN messages ELSE [messages EXCEPT ![i].acked = TRUE]

\* bus.js:163-164
DISPATCH(agentId, taskId, content) == CallOp(NewOp("DISPATCH", agentId, taskId, content))
\* bus.js:183-184
KNOWLEDGE(agentId, taskId, snippet) == CallOp(NewOp("KNOWLEDGE", agentId, taskId, snippet))
\* bus.js:203-204
ASSERT(agentId, taskId, understanding) ==
    CallOp(NewOp("ASSERT", agentId, taskId, understanding))
\* bus.js:228-229
QUERY(agentId, taskId, question, targetAgent) ==
    CallOp([NewOp("QUERY", agentId, taskId, question) EXCEPT !.to = targetAgent])
\* bus.js:256-257
VALIDATE(agentId, taskId, deliverable, approved) ==
    CallOp([NewOp("VALIDATE", agentId, taskId, deliverable) EXCEPT !.flag = approved])
\* bus.js:282-283
CORRECT(agentId, taskId, correction, targetAgent) ==
    CallOp([NewOp("CORRECT", agentId, taskId, correction) EXCEPT !.to = targetAgent])
\* bus.js:310-311
ACK(agentId, taskId, messageId) ==
    CallOp([NewOp("ACK", agentId, taskId, "") EXCEPT !.ref = messageId])
\* bus.js:343-344
HANDOFF(fromAgentId, toAgentId, taskId, workPackage) ==
    CallOp([NewOp("HANDOFF", fromAgentId, taskId, workPackage) EXCEPT !.to = toAgentId])
\* bus.js:424-425
BLOCKER(agentId, taskId, blockerDescription) ==
    CallOp(NewOp("BLOCKER", agentId, taskId, blockerDescription))

\* after getTaskContext: fail on null; else (ACK: mark the original message,)
\* build the message and save it
BusOpGot(o) ==
    /\ o.kind \in MessageKinds /\ o.pc = "got"
    /\ IF o.ctx = NULL
       THEN /\ Finish(o, NotFound(o.kind))
            /\ UNCHANGED <<heap, redisMsgs>>
       ELSE LET message == Message(o, heap[o.ctx])
                marked  == IF o.kind = "ACK"
                           THEN [heap EXCEPT ![o.ctx].messages = MarkAcked(@, o.ref)]
                           ELSE heap
            IN /\ heap' = [marked EXCEPT ![o.ctx].messages = Append(@, message)]
               /\ redisMsgs' = saveMessageRedis(o.taskId, message)
               /\ Resume(o, [o EXCEPT !.pc = "saved", !.msg = message])
               /\ UNCHANGED ret
    /\ UNCHANGED <<consensus, redisOn, taskContexts, redisCtx, activeTasks, completedTasks,
                   nextId, now, events, nOps, restarts>>

\* after saveMessage: emit and return the message
BusOpSaved(o) ==
    /\ o.kind \in MessageKinds /\ o.pc = "saved"
    /\ Emit(o.taskId, EventsOf(o))
    /\ Finish(o, "ok")
    /\ UNCHANGED <<consensus, redisOn, heap, taskContexts, redisCtx, redisMsgs, activeTasks,
                   completedTasks, nextId, now, nOps, restarts>>

\* ---------------------------------------------------------------- WAKE
\* what WAKE returns: the context objects it collected (heap indexes)
Woken(tasks) == [kind |-> "WAKE", taskId |-> NULL, outcome |-> "ok", tasks |-> tasks]

\* bus.js:456-459 the loop over the reply of smembers: fetch the context of one
\* id that is left (a Redis set has no order), or return the tasks.  The ids
\* left and the tasks collected are the operation's locals, held in msg.
WAKELoop(o, left, tasks) ==
    IF left = {}
    THEN /\ ops' = ops \ {o}
         /\ ret' = Woken(tasks)
    ELSE /\ \E t \in left :
              Resume(o, getTaskContextCall([o EXCEPT !.taskId = t, !.ctx = NULL,
                                                     !.msg = [left |-> left \ {t},
                                                              tasks |-> tasks]]))
         /\ UNCHANGED ret

\* bus.js:449-453 without Redis WAKE returns []; with Redis it issues smembers
WAKE ==
    /\ CanCall /\ nOps < MaxOps
    /\ nOps' = nOps + 1
    /\ IF redisOn
       THEN /\ Call([NewOp("WAKE", "", NULL, "") EXCEPT
                       !.pc = "smembers", !.msg = [left |-> activeTasks, tasks |-> <<>>]])
            /\ UNCHANGED ret
       ELSE /\ ret' = Woken(<<>>)
            /\ UNCHANGED ops
    /\ UNCHANGED <<consensus, redisOn, heap, taskContexts, redisCtx, redisMsgs, activeTasks,
                   completedTasks, nextId, now, events, restarts>>

\* bus.js:453-456 the reply of smembers
WAKESmembers(o) ==
    /\ InFlight(o, "WAKE", "smembers")
    /\ WAKELoop(o, o.msg.left, o.msg.tasks)
    /\ UNCHANGED <<consensus, redisOn, heap, taskContexts, redisCtx, redisMsgs, activeTasks,
                   completedTasks, nextId, now, events, nOps, restarts>>

\* bus.js:457-458 after getTaskContext: keep the context if there is one, go on
WAKEGot(o) ==
    /\ InFlight(o, "WAKE", "got")
    /\ WAKELoop(o, o.msg.left,
                IF o.ctx # NULL THEN Append(o.msg.tasks, o.ctx) ELSE o.msg.tasks)
    /\ UNCHANGED <<consensus, redisOn, heap, taskContexts, redisCtx, redisMsgs, activeTasks,
                   completedTasks, nextId, now, events, nOps, restarts>>

\* bus.js:468-475
getTaskTranscript(taskId) ==
    IF taskContexts[taskId] # NULL THEN heap[taskContexts[taskId]].messages ELSE <<>>

\* ---------------------------------------------------------------- environment
\* The process is stopped between operations and started again: memory is gone,
\* Redis is kept; the sessions Map (part_002:20) is memory.  (Without Redis
\* nothing outlives the process, bus.js:28, and the restarted program is the
\* initial one.)
Restart ==
    /\ redisOn /\ restarts < MaxRestarts /\ ops = {}
    /\ restarts' = restarts + 1
    /\ heap' = <<>>
    /\ taskContexts' = [t \in TaskIds \cup {Orphan} |-> NULL]
    /\ ret' = NoRet
    /\ sessions' = [s \in SessionIds |-> NoSession]
    /\ cret' = NoCRet
    /\ emitted' = <<>>
    /\ UNCHANGED <<nextSession, redisOn, redisCtx, redisMsgs, activeTasks, completedTasks,
                   nextId, now, ops, events, nOps>>

\* a millisecond passes
Tick ==
    /\ now < MaxTime
    /\ now' = now + 1
    /\ UNCHANGED <<consensus, redisOn, heap, taskContexts, redisCtx, redisMsgs, activeTasks,
                   completedTasks, nextId, ops, events, ret, nOps, restarts>>

\* the parent ids a caller can pass: none, or the id of a task created earlier
Parents == {NULL} \cup 1..nextId

\* the steps that resume an operation suspended on an await
ResumeCreate ==
    \/ \E o \in ops : createTaskContextSet(o)
    \/ \E o \in ops : createTaskContextSadd(o)

ResumeGet ==
    \/ \E o \in ops : getTaskContextGet(o)
    \/ \E o \in ops : getTaskContextLrange(o)

ResumeCompleteOwn ==
    \/ \E o \in ops : COMPLETEGot(o)
    \/ \E o \in ops : COMPLETESaved(o)
    \/ \E o \in ops : COMPLETESet(o)
    \/ \E o \in ops : COMPLETESrem(o)

ResumeCompleteParent ==
    \/ \E o \in ops : COMPLETEParentGot(o)
    \/ \E o \in ops : COMPLETEParentSet(o)

ResumeComplete == ResumeCompleteOwn \/ ResumeCompleteParent

ResumeStatus ==
    \/ \E o \in ops : updateTaskStatusGot(o)
    \/ \E o \in ops : updateTaskStatusSet(o)
    \/ \E o \in ops : updateTaskStatusSrem(o)
    \/ \E o \in ops : updateTaskStatusSadd(o)

\* Task trees and their completion: callers create tasks under earlier tasks and
\* complete them, with up to MaxInflight calls in flight.
Next ==
    \/ \E r \in Requests, p \in Parents : createTaskContext(r, p)
    \/ \E a \in Agents, t \in TaskIds : COMPLETE(a, t, "done")
    \/ ResumeCreate
    \/ ResumeGet
    \/ ResumeComplete
    \/ Restart

Spec == Init /\ [][Next]_vars

\* The same callers awaiting every call before making the next one.
NextSeq ==
    \/ ops = {} /\ \E r \in Requests, p \in Parents : createTaskContext(r, p)
    \/ ops = {} /\ \E a \in Agents, t \in TaskIds : COMPLETE(a, t, "done")
    \/ ResumeCreate
    \/ ResumeGet
    \/ ResumeComplete
    \/ Restart

SpecSeq == Init /\ [][NextSeq]_vars

\* The message log of one task: every message operation, called before and
\* after the task exists, with up to MaxInflight calls in flight.
NextMsg ==
    \/ nextId < MaxMsgTasks /\ createTaskContext("Build X", NULL)
    \/ \E t \in 1..MaxMsgTasks :
            \/ DISPATCH("mei", t, "c")
            \/ KNOWLEDGE("mei", t, "c")
            \/ ASSERT("mei", t, "c")
            \/ QUERY("mei", t, "c", "hanna")
            \/ VALIDATE("mei", t, "c", TRUE)
            \/ CORRECT("mei", t, "c", "hanna")
            \/ ACK("hanna", t, now)
            \/ HANDOFF("mei", "hanna", t, "c")
            \/ BLOCKER("mei", t, "c")
            \/ COMPLETE("mei", t, "done")
    \/ ResumeCreate
    \/ ResumeGet
    \/ ResumeCompleteOwn
    \/ \E o \in ops : BusOpGot(o)
    \/ \E o \in ops : BusOpSaved(o)
    \/ Restart

SpecMsg == Init /\ [][NextMsg]_vars

\* Acknowledgements: questions, corrections and their ACKs on one task while the
\* clock advances, so that timestamps may or may not tie.
NextAck ==
    \/ nextId < MaxMsgTasks /\ createTaskContext("Build X", NULL)
    \/ \E t \in 1..MaxMsgTasks :
         \/ DISPATCH("mei", t, "c")
         \/ QUERY("mei", t, "c", "hanna")
         \/ CORRECT("mei", t, "c", "hanna")
         \/ \E id \in 1..MaxTime : ACK("hanna", t, id)
    \/ ResumeCreate
    \/ ResumeGet
    \/ \E o \in ops : BusOpGot(o)
    \/ \E o \in ops : BusOpSaved(o)
    \/ Tick
    \/ Restart

SpecAck == Init /\ [][NextAck]_vars

\* ---------------------------------------------------------------- a failing Redis call
\* the pcs at which an operation is suspended on the promise of a Redis command
RedisAwaits == {"get", "lrange", "set", "sadd", "srem", "saved", "pset", "uset", "usrem", "usadd",
                "smembers"}

\* The promise of the awaited Redis command rejects (ioredis rejects a command
\* whose connection is lost or whose retries are used up). No await of the
\* module is inside a try/catch, so the rejection leaves the async function at
\* the await: what it did before stays, nothing after the await runs, and the
\* caller's promise rejects. The store keeps what the server had applied.
RedisError(o) ==
    /\ redisOn
    /\ o.pc \in RedisAwaits
    /\ Finish(o, "rejected")
    /\ UNCHANGED <<consensus, redisOn, heap, taskContexts, redisCtx, redisMsgs, activeTasks,
                   completedTasks, nextId, now, events, nOps, restarts>>

\* One task whose Redis calls may fail.
NextFail ==
    \/ nextId < MaxMsgTasks /\ createTaskContext("Build X", NULL)
    \/ \E t \in 1..MaxMsgTasks, status \in Statuses : updateTaskStatus(t, status)
    \/ \E t \in 1..MaxMsgTasks : COMPLETE("mei", t, "done")
    \/ ResumeCreate
    \/ ResumeGet
    \/ ResumeCompleteOwn
    \/ ResumeStatus
    \/ \E o \in ops : RedisError(o)
    \/ Restart

SpecFail == Init /\ [][NextFail]_vars

\* Recovery: tasks are created, completed and set to a status while WAKE
\* collects the active ones, with up to MaxInflight calls in flight.
ResumeWake ==
    \/ \E o \in ops : WAKESmembers(o)
    \/ \E o \in ops : WAKEGot(o)

NextWake ==
    \/ nextId < MaxMsgTasks /\ createTaskContext("Build X", NULL)
    \/ \E t \in 1..MaxMsgTasks : updateTaskStatus(t, "failed")
    \/ \E t \in 1..MaxMsgTasks : COMPLETE("mei", t, "done")
    \/ WAKE
    \/ ResumeCreate
    \/ ResumeGet
    \/ ResumeCompleteOwn
    \/ ResumeStatus
    \/ ResumeWake
    \/ Restart

SpecWake == Init /\ [][NextWake]_vars

\* The status of one task: callers set it and complete the task, with up to
\* MaxInflight calls in flight.
NextStatus ==
    \/ nextId < MaxMsgTasks /\ createTaskContext("Build X", NULL)
    \/ \E t \in 1..MaxMsgTasks, status \in Statuses : updateTaskStatus(t, status)
    \/ \E t \in 1..MaxMsgTasks : COMPLETE("mei", t, "done")
    \/ ResumeCreate
    \/ ResumeGet
    \/ ResumeCompleteOwn
    \/ ResumeStatus
    \/ Restart

SpecStatus == Init /\ [][NextStatus]_vars

\* ================================================================ the consensus loop
\* src/unnamed/part_002:1-591.  Every function is synchronous: a call runs to
\* its return or throw without interleaving, so each is one action.
\* Of the timestamps only updatedAt is read (by cleanupSessions); createdAt,
\* submittedAt, votedAt, startedAt, concludedAt and the comments' timestamps
\* and ids are written and never read, and are left out, as is log output.

\* part_002:23-46 (the timeouts and the persona toggle are read nowhere in the
\* module and are left out; confidenceThreshold 0.85 is held in hundredths)
DEFAULT_CONFIG ==
    [ maxRounds |-> 5, maxDiscussionTurns |-> 3, requireUnanimous |-> TRUE,
      enableConfidenceSkip |-> TRUE, confidenceThreshold |-> 85,
      enableWeightedVoting |-> TRUE ]

\* part_002:64 { ...DEFAULT_CONFIG, ...config }
MergeConfig(config) ==
    [k \in DOMAIN DEFAULT_CONFIG |-> IF k \in DOMAIN config THEN config[k] ELSE DEFAULT_CONFIG[k]]

\* the participants of a session and the inputs callers pass
Participants  == <<"hanna", "it", "sally">>
Voters        == {"hanna", "it", "sally"}
Authors       == {"hanna"}
Commenters    == {"it"}
\* the votes callers cast: approved, feedback, confidence
Ballots ==
    { <<TRUE, "", 100>>, <<FALSE, "fix it", 0>>, <<FALSE, "", 100>> }
NoAgent       == ""               \* null where an agent id is expected
Configs ==
    {[maxRounds |-> r, maxDiscussionTurns |-> 1, requireUnanimous |-> u,
      enableWeightedVoting |-> w] : r \in 1..MaxCfgRounds, u \in BOOLEAN, w \in BOOLEAN}

CEvent(name, round, agentId) == [name |-> name, round |-> round, agentId |-> agentId]
Returned(op, status, round) ==
    [op |-> op, outcome |-> "ok", error |-> "", status |-> status, round |-> round,
     count |-> 0]
Thrown(op, error) ==
    [op |-> op, outcome |-> "throw", error |-> error, status |-> "", round |-> 0,
     count |-> 0]

\* a call that throws before it changes anything
Throw(op, error) ==
    /\ cret' = Thrown(op, error)
    /\ emitted' = <<>>
    /\ UNCHANGED <<sessions, nextSession>>

\* votes.set(key, value) on the Map of a revision's votes, held as the set of
\* its values, each carrying its key (agentId).  The insertion order a Map
\* keeps shows only in the order of the feedback lists, which are left out.
MapSet(map, key, value) == {v \in map : v.agentId # key} \cup {value}

\* session.revisions[session.revisions.length - 1], as an index (0: undefined)
Current(q) == Len(q)

\* part_002:55-88
createConsensusSession(taskId, agents, prompt, config) ==
    /\ nextSession < MaxSessions
    /\ LET sessionId == nextSession + 1
           session == [ id |-> sessionId, taskId |-> taskId, prompt |-> prompt,
                        agents |-> agents, currentRound |-> 0,
                        config |-> MergeConfig(config),
                        revisions |-> <<>>, discussions |-> <<>>,
                        status |-> "initialized", updatedAt |-> now ]
       IN /\ nextSession' = sessionId
          /\ sessions' = [sessions EXCEPT ![sessionId] = session]
          /\ emitted' = <<CEvent("consensus_session_created", 0, NoAgent)>>
          /\ cret' = Returned("createConsensusSession", "initialized", 0)
    /\ UNCHANGED <<redisOn, heap, taskContexts, redisCtx, redisMsgs, activeTasks,
                   completedTasks, nextId, now, ops, events, ret, nOps, restarts>>

\* a faulty variant: the revision is numbered before the round counter is incremented
NewRevisionStale(round, authorId) ==
    [ round |-> round - 1, author |-> authorId, workProduct |-> "", votes |-> {},
      votingComplete |-> FALSE ]
\* part_002:111-118 the revision pushed for round `round' (null workProduct as "")
NewRevision(round, authorId) ==
    [ round |-> round, author |-> authorId, workProduct |-> "", votes |-> {},
      votingComplete |-> FALSE ]

\* part_002:102-129
startRound(sessionId, authorId) ==
    /\ LET session == sessions[sessionId] IN
       IF ~IsSession(session) THEN Throw("startRound", "not found")
       ELSE /\ session.currentRound < MaxRound
            /\ sessions' = [sessions EXCEPT ![sessionId] =
                 [session EXCEPT
                    !.currentRound = @ + 1,
                    !.status = "drafting",
                    !.updatedAt = now,
                    !.revisions = Append(@, NewRevision(session.currentRound + 1, authorId))]]
            /\ emitted' = <<CEvent("consensus_round_started", session.currentRound + 1, authorId)>>
            /\ cret' = Returned("startRound", "drafting", session.currentRound + 1)
            /\ UNCHANGED nextSession
    /\ UNCHANGED <<redisOn, heap, taskContexts, redisCtx, redisMsgs, activeTasks,
                   completedTasks, nextId, now, ops, events, ret, nOps, restarts>>

\* part_002:156-167 one consensus_review_requested for every agent but the author
ReviewRequests(session, agentId) ==
    LET others == SelectSeq(session.agents, LAMBDA a : a # agentId)
    IN [i \in 1..Len(others) |->
          CEvent("consensus_review_requested", session.currentRound, others[i])]

\* a faulty variant: any agent may submit
NotTheAuthorNever(revision, agentId) == FALSE
\* part_002:143 currentRevision.author !== agentId
NotTheAuthor(revision, agentId) == revision.author # agentId

\* part_002:137-178
submitWork(sessionId, agentId, workProduct) ==
    /\ LET session == sessions[sessionId] IN
       IF ~IsSession(session) THEN Throw("submitWork", "not found")
       ELSE IF Current(session.revisions) = 0 THEN Throw("submitWork", "No active round")
       ELSE IF NotTheAuthor(session.revisions[Current(session.revisions)], agentId)
            THEN Throw("submitWork", "not the author")
       ELSE LET c == Current(session.revisions) IN
            /\ sessions' = [sessions EXCEPT ![sessionId] =
                 [session EXCEPT
                    !.revisions[c].workProduct = workProduct,
                    !.status = "voting",
                    !.updatedAt = now,
                    !.revisions[c].votes =
                        MapSet(@, agentId, [ agentId |-> agentId, approved |-> TRUE,
                                             confidence |-> 100,
                                             feedback |-> "Author submission" ])]]
            /\ emitted' = ReviewRequests(session, agentId)
            /\ cret' = Returned("submitWork", "voting", session.currentRound)
            /\ UNCHANGED nextSession
    /\ UNCHANGED <<redisOn, heap, taskContexts, redisCtx, redisMsgs, activeTasks,
                   completedTasks, nextId, now, ops, events, ret, nOps, restarts>>

\* a faulty variant: only approvals weigh
WeightOfApproval(vote) == IF vote.approved THEN vote.confidence ELSE 0
\* a faulty variant: a confidence of 0 weighs nothing
WeightRaw(vote) == vote.confidence
\* part_002:255 (vote.confidence || 50) / 100, in hundredths: a confidence of 0
\* is falsy and weighs 50.  (With the confidences used here, 0, 10, 80, 90 and
\* 100, no approve weight equals a non-zero reject weight, so the rounding of
\* floating-point sums changes no comparison.)
Weight(vote) == IF vote.confidence = 0 THEN 50 ELSE vote.confidence

\* part_002:251-261 approveWeight (approved = TRUE), rejectWeight (approved = FALSE)
RECURSIVE WeightOf(_, _)
WeightOf(votes, approved) ==
    IF votes = {} THEN 0
    ELSE LET vote == CHOOSE v \in votes : TRUE
         IN (IF vote.approved = approved THEN Weight(vote) ELSE 0)
            + WeightOf(votes \ {vote}, approved)

\* part_002:263-264, 273-274
Approvals(votes)  == Cardinality({v \in votes : v.approved})
Rejections(votes) == {v \in votes : ~v.approved}

\* part_002:248-278 the decision `approved`
ConsensusApproved(config, votes) ==
    IF config.enableWeightedVoting
    THEN IF config.requireUnanimous
         THEN WeightOf(votes, FALSE) = 0
         ELSE WeightOf(votes, TRUE) > WeightOf(votes, FALSE)
    ELSE IF config.requireUnanimous
         THEN Cardinality(Rejections(votes)) = 0
         ELSE Approvals(votes) > Cardinality(Rejections(votes))

\* a faulty variant: the round limit is never reached
RoundsExhaustedNever(session) == FALSE
\* a faulty variant: the round limit is passed only when the counter exceeds it
RoundsExhaustedLate(session) == session.currentRound > session.config.maxRounds
\* part_002:306
RoundsExhausted(session) == session.currentRound >= session.config.maxRounds

\* part_002:243-364 checkConsensus from the votes on: `session' is the session
\* as the caller left it, `evs' what the caller has emitted
Evaluate(op, sessionId, session, evs) ==
    LET rev   == session.revisions[Current(session.revisions)]
        round == session.currentRound
        end(status, ev, s) ==
            /\ sessions' = [sessions EXCEPT ![sessionId] =
                              [s EXCEPT !.status = status, !.updatedAt = now]]
            /\ emitted' = Append(evs, CEvent(ev, round, rev.author))
            /\ cret' = Returned(op, status, round)
    IN IF ConsensusApproved(session.config, rev.votes)
       THEN end("approved", "consensus_reached", session)
       ELSE IF RoundsExhausted(session)
       THEN end("deadlocked", "consensus_deadlocked", session)
       ELSE /\ Len(session.discussions) < MaxThreads
            /\ end("discussing", "consensus_discussion_started",
                [session EXCEPT !.discussions =
                   Append(@, [ round |-> round, comments |-> <<>>,
                               turnCount |-> 0, concluded |-> FALSE ])]) 

\* part_002:236-364
checkConsensus(sessionId) ==
    /\ LET session == sessions[sessionId] IN
       IF ~IsSession(session) THEN Throw("checkConsensus", "not found")
       ELSE IF Current(session.revisions) = 0
            THEN Throw("checkConsensus", "No active revision")
       ELSE Evaluate("checkConsensus", sessionId, session, <<>>)
    /\ UNCHANGED <<nextSession, redisOn, heap, taskContexts, redisCtx, redisMsgs,
                   activeTasks, completedTasks, nextId, now, ops, events, ret, nOps,
                   restarts>>

\* a faulty variant: a rejection is accepted without feedback
FeedbackMissingNever(approved, feedback) == FALSE
\* part_002:197 !approved && !feedback
FeedbackMissing(approved, feedback) == ~approved /\ feedback = ""

\* a faulty variant: a vote is taken in any state
NotVotingNever(session) == FALSE
\* part_002:191 session.status !== 'voting'
NotVoting(session) == session.status # "voting"

\* part_002:188-230
castVote(sessionId, agentId, approved, feedback, confidence) ==
    /\ LET session == sessions[sessionId] IN
       IF ~IsSession(session) THEN Throw("castVote", "not found")
       ELSE IF NotVoting(session) THEN Throw("castVote", "Session not in voting state")
       ELSE IF Current(session.revisions) = 0 THEN Throw("castVote", "No active revision")
       ELSE IF FeedbackMissing(approved, feedback)
            THEN Throw("castVote", "Feedback required when rejecting work")
       ELSE LET c     == Current(session.revisions)
                voted == [session EXCEPT !.revisions[c].votes =
                            MapSet(@, agentId, [ agentId |-> agentId, approved |-> approved,
                                                 confidence |-> confidence,
                                                 feedback |-> feedback ])]
                cast  == <<CEvent("consensus_vote_cast", session.currentRound, agentId)>>
            IN IF Cardinality(voted.revisions[c].votes) >= Len(session.agents)
               THEN Evaluate("castVote", sessionId,
                             [voted EXCEPT !.revisions[c].votingComplete = TRUE], cast)
               ELSE /\ sessions' = [sessions EXCEPT ![sessionId] = voted]
                    /\ emitted' = cast
                    /\ cret' = [Returned("castVote", "voting", 0) EXCEPT
                                  !.count = Cardinality(voted.revisions[c].votes)]
    /\ UNCHANGED <<nextSession, redisOn, heap, taskContexts, redisCtx, redisMsgs,
                   activeTasks, completedTasks, nextId, now, ops, events, ret, nOps,
                   restarts>>

\* part_002:425-464 concludeDiscussion from the session on.  With no revision,
\* currentRevision.author / .workProduct (443, 452) is a TypeError, thrown
\* after the status has been set to revising.
Conclude(op, sessionId, session, assignedReviser, evs) ==
    LET d  == Current(session.discussions)
        s1 == IF d = 0 THEN session
              ELSE [session EXCEPT !.discussions[d].concluded = TRUE]
        s2 == [s1 EXCEPT !.status = "revising", !.updatedAt = now]
        c  == Current(session.revisions)
    IN /\ sessions' = [sessions EXCEPT ![sessionId] = s2]
       /\ IF c = 0
          THEN /\ cret' = Thrown(op, "TypeError")
               /\ emitted' = evs
          ELSE LET reviser == IF assignedReviser # NoAgent THEN assignedReviser
                              ELSE session.revisions[c].author
               IN /\ cret' = Returned(op, "revising", session.currentRound)
                  /\ emitted' = Append(evs, CEvent("consensus_revision_needed",
                                                   session.currentRound, reviser))

\* part_002:425-464
concludeDiscussion(sessionId, assignedReviser) ==
    /\ LET session == sessions[sessionId] IN
       IF ~IsSession(session) THEN Throw("concludeDiscussion", "not found")
       ELSE /\ Conclude("concludeDiscussion", sessionId, session, assignedReviser, <<>>)
            /\ UNCHANGED nextSession
    /\ UNCHANGED <<redisOn, heap, taskContexts, redisCtx, redisMsgs, activeTasks,
                   completedTasks, nextId, now, ops, events, ret, nOps, restarts>>

\* a faulty variant: the discussion is concluded one comment late
DiscussionLimitPassed(session, discussion) ==
    discussion.turnCount > session.config.maxDiscussionTurns * Len(session.agents)
\* part_002:412
DiscussionLimitReached(session, discussion) ==
    discussion.turnCount >= session.config.maxDiscussionTurns * Len(session.agents)

\* part_002:383 session.status !== 'discussing'
NotDiscussing(session) == session.status # "discussing"

\* part_002:380-418
addDiscussionComment(sessionId, agentId, comment, replyTo) ==
    /\ LET session == sessions[sessionId] IN
       IF ~IsSession(session) THEN Throw("addDiscussionComment", "not found")
       ELSE IF NotDiscussing(session)
            THEN Throw("addDiscussionComment", "Session not in discussion phase")
       ELSE IF Current(session.discussions) = 0
            THEN Throw("addDiscussionComment", "No active discussion")
       ELSE LET d     == Current(session.discussions)
                entry == [agentId |-> agentId, comment |-> comment, replyTo |-> replyTo]
                said  == [session EXCEPT !.discussions[d].comments = Append(@, entry),
                                         !.discussions[d].turnCount = @ + 1,
                                         !.updatedAt = now]
                added == <<CEvent("consensus_comment_added", session.currentRound, agentId)>>
            IN /\ IF DiscussionLimitReached(session, said.discussions[d])
                  THEN Conclude("addDiscussionComment", sessionId, said, NoAgent, added)
                  ELSE /\ sessions' = [sessions EXCEPT ![sessionId] = said]
                       /\ emitted' = added
                       /\ cret' = Returned("addDiscussionComment", "discussing",
                                           session.currentRound)
               /\ UNCHANGED nextSession
    /\ UNCHANGED <<redisOn, heap, taskContexts, redisCtx, redisMsgs, activeTasks,
                   completedTasks, nextId, now, ops, events, ret, nOps, restarts>>

\* a faulty variant: the age alone decides
ExpiredWhateverStatus(session, maxAgeMs) == now - session.updatedAt > maxAgeMs
\* part_002:579-580
Expired(session, maxAgeMs) ==
    /\ now - session.updatedAt > maxAgeMs
    /\ session.status \in {"approved", "deadlocked"}

\* part_002:574-591
cleanupSessions(maxAgeMs) ==
    LET old == {id \in SessionIds :
                  IsSession(sessions[id]) /\ Expired(sessions[id], maxAgeMs)}
    IN /\ sessions' = [id \in SessionIds |-> IF id \in old THEN NoSession ELSE sessions[id]]
       /\ cret' = [Returned("cleanupSessions", "", 0) EXCEPT !.count = Cardinality(old)]
       /\ emitted' = <<>>
       /\ UNCHANGED <<nextSession, redisOn, heap, taskContexts, redisCtx, redisMsgs,
                      activeTasks, completedTasks, nextId, now, ops, events, ret, nOps,
                      restarts>>

\* the step opens no thread past the first MaxDiscussions
FewDiscussions ==
    \A s \in SessionIds :
      IsSession(sessions'[s]) => Len(sessions'[s].discussions) <= MaxDiscussions

\* Consensus sessions: callers create a session and its participants drive it with
\* any call in any state.
NextConsensus ==
    \/ \E c \in Configs : createConsensusSession("task-1", Participants, "Build X", c)
    \/ \E s \in SessionIds, a \in Authors : startRound(s, a)
    \/ \E s \in SessionIds, a \in Voters : submitWork(s, a, "draft")
    \/ \E s \in SessionIds, a \in Voters, b \in Ballots : castVote(s, a, b[1], b[2], b[3]) /\ FewDiscussions
    \/ \E s \in SessionIds : checkConsensus(s) /\ FewDiscussions
    \/ \E s \in SessionIds, a \in Commenters : addDiscussionComment(s, a, "why", NoAgent)
    \/ \E s \in SessionIds, r \in {NoAgent, "sally"} : concludeDiscussion(s, r)

InitConsensus == Init /\ redisOn = FALSE

SpecConsensus == InitConsensus /\ [][NextConsensus]_vars

\* Weighted voting: sessions in weighted mode, unanimous or by majority, whose
\* participants vote with confidences 90, 80 and 10.
WeightedConfigs ==
    {[maxRounds |-> r, maxDiscussionTurns |-> 1, requireUnanimous |-> u,
      enableWeightedVoting |-> TRUE] : r \in 1..MaxCfgRounds, u \in BOOLEAN}
WeightedBallots == { <<TRUE, "", 90>>, <<TRUE, "", 80>>, <<FALSE, "fix it", 10>> }

NextWeighted ==
    \/ \E c \in WeightedConfigs : createConsensusSession("task-1", Participants, "Build X", c)
    \/ \E s \in SessionIds, a \in Authors : startRound(s, a)
    \/ \E s \in SessionIds, a \in Authors : submitWork(s, a, "draft")
    \/ \E s \in SessionIds, a \in Voters, b \in WeightedBallots : castVote(s, a, b[1], b[2], b[3]) /\ FewDiscussions
    \/ \E s \in SessionIds : checkConsensus(s) /\ FewDiscussions
    \/ \E s \in SessionIds : concludeDiscussion(s, NoAgent)

SpecWeighted == InitConsensus /\ [][NextWeighted]_vars

\* Discussion threads: a session decided by majority, whose rounds may be
\* evaluated any number of times, up to MaxThreads threads.
ThreadConfigs ==
    {[maxRounds |-> MaxCfgRounds, maxDiscussionTurns |-> 1, requireUnanimous |-> FALSE,
      enableWeightedVoting |-> w] : w \in BOOLEAN}

NextThreads ==
    \/ \E c \in ThreadConfigs : createConsensusSession("task-1", Participants, "Build X", c)
    \/ \E s \in SessionIds, a \in Authors : startRound(s, a)
    \/ \E s \in SessionIds, a \in Authors : submitWork(s, a, "draft")
    \/ \E s \in SessionIds, a \in Voters, b \in Ballots : castVote(s, a, b[1], b[2], b[3])
    \/ \E s \in SessionIds : checkConsensus(s)
    \/ \E s \in SessionIds, a \in Commenters : addDiscussionComment(s, a, "why", NoAgent)
    \/ \E s \in SessionIds : concludeDiscussion(s, NoAgent)

SpecThreads == InitConsensus /\ [][NextThreads]_vars

\* The life of a session up to its removal: one round to a verdict, and the
\* periodic cleanup, while the clock advances.
NextCleanup ==
    \/ \E c \in Configs : c.maxRounds = 1 /\ createConsensusSession("task-1", Participants, "Build X", c)
    \/ \E s \in SessionIds, a \in Authors : startRound(s, a)
    \/ \E s \in SessionIds, a \in Authors : submitWork(s, a, "draft")
    \/ \E s \in SessionIds, a \in Voters, b \in Ballots : castVote(s, a, b[1], b[2], b[3]) /\ FewDiscussions
    \/ \E s \in SessionIds : checkConsensus(s) /\ FewDiscussions
    \/ \E s \in SessionIds, a \in Commenters : addDiscussionComment(s, a, "why", NoAgent)
    \/ \E s \in SessionIds : concludeDiscussion(s, NoAgent)
    \/ cleanupSessions(0)
    \/ Tick

SpecCleanup == InitConsensus /\ [][NextCleanup]_vars

\* Votes from outside: a session that requires unanimity, evaluated only when
\* castVote finds the votes in, whose votes come from its participants and from
\* an agent that is not one of them.
Outsider == "mallory"
OutsiderConfigs ==
    {[maxRounds |-> r, maxDiscussionTurns |-> 1, requireUnanimous |-> TRUE,
      enableWeightedVoting |-> w] : r \in 1..MaxCfgRounds, w \in BOOLEAN}
OutsiderBallots == { <<TRUE, "", 100>>, <<FALSE, "fix it", 0>> }

NextOutsider ==
    \/ \E c \in OutsiderConfigs : createConsensusSession("task-1", Participants, "Build X", c)
    \/ \E s \in SessionIds, a \in Authors : startRound(s, a)
    \/ \E s \in SessionIds, a \in Authors : submitWork(s, a, "draft")
    \/ \E s \in SessionIds, a \in Voters \cup {Outsider}, b \in OutsiderBallots :
         castVote(s, a, b[1], b[2], b[3]) /\ FewDiscussions
    \/ \E s \in SessionIds : concludeDiscussion(s, NoAgent)

SpecOutsider == InitConsensus /\ [][NextOutsider]_vars

\* The two voting modes: sessions that require unanimity, in weighted and in
\* equal-weight mode, whose rounds are evaluated on any set of votes, cast with
\* confidences 0, 50 and 100.
EquivConfigs ==
    {[maxRounds |-> r, maxDiscussionTurns |-> 1, requireUnanimous |-> TRUE,
      enableWeightedVoting |-> w] : r \in 1..MaxCfgRounds, w \in BOOLEAN}
EquivBallots ==
    { <<TRUE, "", 100>>, <<FALSE, "fix it", 0>>, <<FALSE, "fix it", 50>> }

NextEquiv ==
    \/ \E c \in EquivConfigs : createConsensusSession("task-1", Participants, "Build X", c)
    \/ \E s \in SessionIds, a \in Authors : startRound(s, a)
    \/ \E s \in SessionIds, a \in Authors : submitWork(s, a, "draft")
    \/ \E s \in SessionIds, a \in Voters, b \in EquivBallots :
         castVote(s, a, b[1], b[2], b[3]) /\ FewDiscussions
    \/ \E s \in SessionIds : checkConsensus(s) /\ FewDiscussions
    \/ \E s \in SessionIds : concludeDiscussion(s, NoAgent)

SpecEquiv == InitConsensus /\ [][NextEquiv]_vars

\* The protocol: callers create a session and take each step in its turn:
\* startRound on a new or revising session, the author's submitWork on a
\* drafting one, one vote of every participant that has not voted on a voting
\* one, comments and concludeDiscussion on a discussing one.  A caller that
\* follows the protocol takes the step that is due, which is weak fairness of
\* the steps of each session.
ProtocolBallots == {b \in Ballots : ~FeedbackMissing(b[1], b[2])}

\* the revision of the round in progress
Round(s) == sessions[s].revisions[Current(sessions[s].revisions)]

ProtocolStart(s) ==
    /\ IsSession(sessions[s])
    /\ sessions[s].status \in {"initialized", "revising"}
    /\ \E a \in Authors : startRound(s, a)
ProtocolSubmit(s) ==
    /\ IsSession(sessions[s])
    /\ sessions[s].status = "drafting"
    /\ submitWork(s, Round(s).author, "draft")
ProtocolVote(s) ==
    /\ IsSession(sessions[s])
    /\ sessions[s].status = "voting"
    /\ \E i \in 1..Len(sessions[s].agents), b \in ProtocolBallots :
         /\ \A v \in Round(s).votes : v.agentId # sessions[s].agents[i]
         /\ castVote(s, sessions[s].agents[i], b[1], b[2], b[3])
ProtocolComment(s) ==
    /\ IsSession(sessions[s])
    /\ sessions[s].status = "discussing"
    /\ \E a \in Commenters : addDiscussionComment(s, a, "why", NoAgent)
ProtocolConclude(s) ==
    /\ IsSession(sessions[s])
    /\ sessions[s].status = "discussing"
    /\ concludeDiscussion(s, NoAgent)

ProtocolStep(s) ==
    \/ ProtocolStart(s)
    \/ ProtocolSubmit(s)
    \/ ProtocolVote(s)
    \/ ProtocolComment(s)
    \/ ProtocolConclude(s)

NextProtocol ==
    \/ \E c \in Configs : createConsensusSession("task-1", Participants, "Build X", c)
    \/ \E s \in SessionIds : ProtocolStart(s)
    \/ \E s \in SessionIds : ProtocolSubmit(s)
    \/ \E s \in SessionIds : ProtocolVote(s)
    \/ \E s \in SessionIds : ProtocolComment(s)
    \/ \E s \in SessionIds : ProtocolConclude(s)

SpecProtocol ==
    /\ InitConsensus /\ [][NextProtocol]_vars
    /\ \A s \in SessionIds : WF_vars(ProtocolStep(s))

\* ================================================================ the claims
\* the all_children_complete notifications emitted for parent p
Acc(ev, p) == SelectSeq(ev[p], LAMBDA e : e.name = "all_children_complete")
\* the number of times COMPLETE has announced task c complete
CompleteCount(ev, c) == Cardinality({i \in 1..Len(ev[c]) : ev[c][i].name = "complete"})
\* the context busState.taskContexts holds for t
Mem(t) == heap[taskContexts[t]]
Range(f) == {f[i] : i \in DOMAIN f}
Last(q) == q[Len(q)]

\* C1: the all_children_complete notification of a parent is emitted at most
\* once, and only when every one of its registered children has completed;
\* completing one child twice neither fires it early nor fires it again.
C1_AggregationOnce ==
    [][\A p \in TaskIds :
         Len(Acc(events', p)) > Len(Acc(events, p)) =>
           /\ Len(Acc(events', p)) = 1
           /\ taskContexts'[p] # NULL
           /\ LET parent == heap'[taskContexts'[p]] IN
              /\ parent.childrenComplete = Len(parent.childTaskIds)
              /\ \A c \in Range(parent.childTaskIds) : CompleteCount(events', c) >= 1]_vars

\* C2: when the COMPLETEs of two siblings have both returned (each child
\* completed once, whatever the interleaving at the Redis awaits), the parent's
\* childrenComplete is 2 and exactly one all_children_complete carrying both
\* deliverables has been emitted.
C2_SiblingRace ==
    (redisOn /\ restarts = 0 /\ ops = {}) =>
      \A p \in TaskIds :
        (/\ taskContexts[p] # NULL
         /\ Len(Mem(p).childTaskIds) = 2
         /\ \A c \in Range(Mem(p).childTaskIds) : CompleteCount(events, c) = 1)
        => /\ Mem(p).childrenComplete = 2
           /\ Cardinality({i \in 1..Len(events[p]) :
                             /\ events[p][i].name = "all_children_complete"
                             /\ Len(events[p][i].data) = 2}) = 1

\* C3: every task context in the registry has childrenComplete <= childTaskIds.length.
C3_ChildrenCompleteBound ==
    \A t \in TaskIds :
      taskContexts[t] # NULL => Mem(t).childrenComplete <= Len(Mem(t).childTaskIds)

\* C4: children completing once each, one call after another, within one run of
\* the process: when the calls have returned the parent's childrenComplete is
\* the number of children that completed; its deliverables grow by the entry of
\* the child whose COMPLETE is running, so they are in completion order;
\* all_children_complete is emitted only by the completion that makes the
\* counter equal to the number N of children, it carries the parent's id and
\* the N deliverables, one per child, and once the N-th completion has
\* returned it has been emitted.
C4_SequentialAggregation ==
    [][\A p \in TaskIds :
         (restarts' = 0 /\ taskContexts'[p] # NULL) =>
           LET new  == heap'[taskContexts'[p]]
               kids == new.childTaskIds
               N    == Len(kids)
               done == {c \in Range(kids) : CompleteCount(events', c) >= 1}
               dels == new.deliverables
           IN (\A c \in Range(kids) : CompleteCount(events', c) <= 1) =>
                /\ ops' = {} => new.childrenComplete = Cardinality(done)
                /\ Len(dels) = new.childrenComplete
                /\ \A i, j \in 1..Len(dels) :
                     dels[i].taskId \in Range(kids) /\ (dels[i].taskId = dels[j].taskId => i = j)
                /\ (taskContexts[p] # NULL /\ Mem(p).deliverables # dels) =>
                     \E o \in ops :
                       /\ o.kind = "COMPLETE"
                       /\ dels = Append(Mem(p).deliverables,
                                        [agentId |-> o.agentId, taskId |-> o.taskId,
                                         deliverable |-> o.arg])
                /\ Len(Acc(events', p)) > Len(Acc(events, p)) =>
                     /\ new.childrenComplete = N
                     /\ Last(Acc(events', p)).taskId = p
                     /\ Last(Acc(events', p)).data = dels
                     /\ {dels[i].taskId : i \in 1..Len(dels)} = Range(kids)
                /\ (ops' = {} /\ N >= 1 /\ new.childrenComplete = N) =>
                     /\ Acc(events', p) # <<>>
                     /\ Last(Acc(events', p)).data = dels]_vars

\* two children, each completed once, and the aggregate carrying both deliverables
C4_Witness ==
    \E p \in TaskIds :
      /\ restarts = 0 /\ ops = {} /\ taskContexts[p] # NULL
      /\ Len(Mem(p).childTaskIds) = 2
      /\ \A c \in Range(Mem(p).childTaskIds) : CompleteCount(events, c) = 1
      /\ Mem(p).childrenComplete = 2
      /\ Len(Acc(events, p)) = 1
      /\ Len(Acc(events, p)[1].data) = 2

\* C5: a step of COMPLETE on an existing task without a parent emits no
\* all_children_complete and changes no other task context, in memory or in
\* Redis; when the call returns it has not thrown, the status of its context
\* is completed and its COMPLETE message is in the context's log.
C5_CompleteWithoutParent ==
    [][\A o \in ops :
         (/\ o.kind = "COMPLETE" /\ o.ctx # NULL /\ ~HasParent(heap[o.ctx])
          /\ o \notin ops') =>
           /\ \A t \in TaskIds : Len(Acc(events', t)) = Len(Acc(events, t))
           /\ Len(heap') = Len(heap)
           /\ \A i \in 1..Len(heap) : i # o.ctx => heap'[i] = heap[i]
           /\ taskContexts' = taskContexts
           /\ \A t \in TaskIds : t # o.taskId =>
                redisCtx'[t] = redisCtx[t] /\ redisMsgs'[t] = redisMsgs[t]
           /\ (\A q \in ops' : q.id # o.id) =>
                /\ ret' = [kind |-> "COMPLETE", taskId |-> o.taskId, outcome |-> "ok"]
                /\ heap'[o.ctx].status = "completed"
                /\ \E i \in 1..Len(heap'[o.ctx].messages) :
                     /\ heap'[o.ctx].messages[i].type = "COMPLETE"
                     /\ heap'[o.ctx].messages[i] = o.msg]_vars

\* COMPLETE has returned for a task that has no parent
C5_Witness ==
    \E t \in TaskIds :
      /\ ret = [kind |-> "COMPLETE", taskId |-> t, outcome |-> "ok"]
      /\ taskContexts[t] # NULL
      /\ ~HasParent(Mem(t))
      /\ Mem(t).status = "completed"
      /\ \E i \in 1..Len(Mem(t).messages) : Mem(t).messages[i].type = "COMPLETE"

\* the messages of m's log that follow position i and acknowledge timestamp ts
AcksAfter(messages, i, ts) ==
    {j \in (i+1)..Len(messages) :
       messages[j].type = "ACK" /\ messages[j].referencedMessage = ts}
\* the number of operations on task t that appended a message and returned
Appended(t) == Cardinality({i \in 1..Len(events[t]) : events[t][i].name = "bus_message"})
\* the operations that looked for their task and found no context
FoundNothing(o) ==
    /\ o.kind \in MessageKinds \cup {"COMPLETE"} /\ o.phase = "task"
    /\ \/ o.pc = "get" /\ ~IsJson(o.tmp)
       \/ o.pc = "got" /\ o.ctx = NULL

\* C6: within one run of the process, every message of a task that requires an
\* acknowledgement (QUERY, CORRECT; several may carry one timestamp) has
\* acked = TRUE exactly when an ACK referencing its timestamp has been processed
\* on the task after it; a flag that is TRUE stays TRUE; an ACK that finds a
\* context returns without throwing.
C6_AckedIffAcknowledged ==
    [][restarts' = 0 =>
         /\ \A t \in TaskIds : taskContexts'[t] # NULL =>
              LET new == heap'[taskContexts'[t]].messages IN
              \A i \in 1..Len(new) : Field(new[i], "requiresAck", FALSE) =>
                /\ new[i].type \in {"QUERY", "CORRECT"}
                /\ new[i].acked = (AcksAfter(new, i, new[i].timestamp) # {})
                /\ (/\ taskContexts[t] = taskContexts'[t]
                    /\ i <= Len(Mem(t).messages)
                    /\ Mem(t).messages[i].acked) => new[i].acked
         /\ \A o \in ops : (o.kind = "ACK" /\ o.ctx # NULL /\ \A q \in ops' : q.id # o.id) =>
              ret'.outcome = "ok"]_vars

\* C7: when the operations on a task have returned and the task is in the
\* registry, getTaskTranscript returns as many messages as operations appended
\* one, in the order of the appends (with Redis: the order of the stored list).
C7_TranscriptRoundTrip ==
    ops = {} =>
      \A t \in TaskIds : taskContexts[t] # NULL =>
        /\ Len(getTaskTranscript(t)) = Appended(t)
        /\ redisOn =>
             /\ Len(redisMsgs[t]) = Appended(t)
             /\ \A i \in 1..Len(getTaskTranscript(t)) : i <= Len(redisMsgs[t]) =>
                  /\ getTaskTranscript(t)[i].type = redisMsgs[t][i].type
                  /\ getTaskTranscript(t)[i].timestamp = redisMsgs[t][i].timestamp

\* C8: every message in the log of a task context, ACK included, carries the
\* contextHash of that context.
C8_MessagesCarryContextHash ==
    \A t \in TaskIds : taskContexts[t] # NULL =>
      \A i \in 1..Len(Mem(t).messages) :
        Field(Mem(t).messages[i], "contextHash", <<>>) = Mem(t).contextHash

\* what C9 says of a step taken by an operation that finds no context for its
\* task: nothing is created, appended or emitted, and when the operation ends it
\* throws unless its kind is in `quiet'
NoTaskNoEffect(quiet) ==
    \A o \in ops :
      (FoundNothing(o) /\ o \notin ops') =>
        /\ heap' = heap /\ taskContexts' = taskContexts
        /\ redisCtx' = redisCtx /\ redisMsgs' = redisMsgs
        /\ activeTasks' = activeTasks /\ completedTasks' = completedTasks
        /\ events' = events
        /\ (\A q \in ops' : q.id # o.id) =>
             ret' = [kind |-> o.kind, taskId |-> o.taskId,
                     outcome |-> IF o.kind \in quiet THEN "silent" ELSE "throw"]

Revision(session) == session.revisions[Current(session.revisions)]
\* the session is in equal-weight mode with requireUnanimous and has 3 agents
EqualUnanimous(session) ==
    /\ ~session.config.enableWeightedVoting
    /\ session.config.requireUnanimous
    /\ Len(session.agents) = 3
\* the votes of the current revision are those of the session's agents, one each
AllVoted(session) ==
    /\ Current(session.revisions) >= 1
    /\ {v.agentId : v \in Revision(session).votes} = Range(session.agents)
    /\ Cardinality(Revision(session).votes) = Len(session.agents)
\* what C10 says of a step in which castVote brings in the last of the 3 votes
\* and the round is evaluated; a rejected round deadlocks when currentRound is
\* past maxRounds (strictly) or has reached it (not strictly)
UnanimityVerdict(strictly) ==
    \A s \in SessionIds :
      (/\ IsSession(sessions[s]) /\ IsSession(sessions'[s])
       /\ sessions'[s] # sessions[s]
       /\ cret'.op = "castVote" /\ cret'.outcome = "ok" /\ cret'.status # "voting"
       /\ EqualUnanimous(sessions'[s]) /\ AllVoted(sessions'[s])) =>
        LET new == sessions'[s]
            allApprove == \A v \in Revision(new).votes : v.approved
            exhausted  == IF strictly THEN new.currentRound > new.config.maxRounds
                          ELSE new.currentRound >= new.config.maxRounds
        IN /\ new.status = "approved" <=> allApprove
           /\ ~allApprove =>
                new.status = IF exhausted THEN "deadlocked" ELSE "discussing"
           /\ cret'.status = new.status

\* C10 (as stated): equal-weight mode, requireUnanimous, 3 agents: the round
\* that receives all 3 votes ends approved iff all 3 approve; with a rejection
\* it ends discussing, or deadlocked when currentRound > maxRounds.
C10_DeadlockPastMaxRounds == [][UnanimityVerdict(TRUE)]_vars

\* C10: equal-weight mode, requireUnanimous, 3 agents: the round that receives
\* all 3 votes ends approved iff all 3 approve; with a rejection it ends
\* deadlocked when currentRound >= maxRounds and discussing otherwise.
C10_UnanimityVerdict == [][UnanimityVerdict(FALSE)]_vars

\* a rejected round with currentRound = maxRounds has ended deadlocked
C10_Witness ==
    \E s \in SessionIds :
      /\ IsSession(sessions[s])
      /\ EqualUnanimous(sessions[s]) /\ AllVoted(sessions[s])
      /\ cret.op = "castVote" /\ cret.status = "deadlocked"
      /\ sessions[s].status = "deadlocked"
      /\ sessions[s].currentRound = sessions[s].config.maxRounds
      /\ \E v \in Revision(sessions[s]).votes : ~v.approved

\* castVote has just brought in the last vote of session s and the round was evaluated
RoundEvaluated(s) ==
    /\ IsSession(sessions[s]) /\ IsSession(sessions'[s])
    /\ sessions'[s] # sessions[s]
    /\ cret'.op = "castVote" /\ cret'.outcome = "ok" /\ cret'.status # "voting"

\* C11: a round that is evaluated with a rejecting vote (requireUnanimous) leaves
\* the session discussing while currentRound is below maxRounds and deadlocked
\* when it equals maxRounds (maxRounds = 2: discussing after round 1,
\* deadlocked after round 2), and no round past the limit is ever started:
\* currentRound <= maxRounds in every state.
C11_RoundsWithinLimit ==
    [][\A s \in SessionIds : IsSession(sessions'[s]) =>
         LET new == sessions'[s] IN
         /\ new.currentRound <= new.config.maxRounds
         /\ (/\ RoundEvaluated(s) /\ new.config.requireUnanimous
             /\ \E v \in Revision(new).votes : ~v.approved) =>
              new.status = IF new.currentRound < new.config.maxRounds
                           THEN "discussing" ELSE "deadlocked"]_vars

\* C12: a castVote that throws for a rejection without feedback leaves the
\* sessions (votes, votingComplete, status) as they were and emits nothing, and
\* no revision ever holds a rejection whose feedback is empty.
C12_RejectionNeedsFeedback ==
    [][/\ cret'.error = "Feedback required when rejecting work" =>
            /\ cret'.op = "castVote" /\ cret'.outcome = "throw"
            /\ sessions' = sessions
            /\ emitted' = <<>>
       /\ \A s \in SessionIds : IsSession(sessions'[s]) =>
            \A i \in 1..Len(sessions'[s].revisions) :
              \A v \in sessions'[s].revisions[i].votes : ~v.approved => v.feedback # ""]_vars

\* a rejection without feedback has been refused while the session was voting
C12_Witness ==
    /\ cret.op = "castVote" /\ cret.error = "Feedback required when rejecting work"
    /\ \E s \in SessionIds :
         /\ IsSession(sessions[s]) /\ sessions[s].status = "voting"
         /\ ~Revision(sessions[s]).votingComplete

\* a call has just evaluated the current round of session s
Evaluated(s) ==
    /\ IsSession(sessions[s]) /\ IsSession(sessions'[s])
    /\ sessions'[s] # sessions[s]
    /\ cret'.op \in {"castVote", "checkConsensus"}
    /\ cret'.outcome = "ok" /\ cret'.status # "voting"

\* C13: weighted mode, requireUnanimous: the evaluation of a fully voted round
\* that holds a rejection of positive confidence does not approve, whatever
\* the approve weight; below the round limit the session moves to discussing
\* and one new, empty discussion thread for the round is appended.
C13_WeightedRejection ==
    [][\A s \in SessionIds :
         (/\ Evaluated(s)
          /\ sessions'[s].config.enableWeightedVoting
          /\ sessions'[s].config.requireUnanimous
          /\ AllVoted(sessions'[s])
          /\ \E v \in Revision(sessions'[s]).votes : ~v.approved /\ v.confidence > 0) =>
           LET old == sessions[s]
               new == sessions'[s]
           IN /\ new.status # "approved"
              /\ new.currentRound < new.config.maxRounds =>
                   /\ new.status = "discussing"
                   /\ Len(new.discussions) = Len(old.discussions) + 1
                   /\ SubSeq(new.discussions, 1, Len(old.discussions)) = old.discussions
                   /\ Last(new.discussions).round = new.currentRound
                   /\ Last(new.discussions).comments = <<>>
                   /\ ~Last(new.discussions).concluded]_vars

\* approve 90, reject 10, approve 80 in round 1 of 2: the session is discussing
C13_Witness ==
    \E s \in SessionIds :
      /\ IsSession(sessions[s])
      /\ sessions[s].config.enableWeightedVoting /\ sessions[s].config.requireUnanimous
      /\ AllVoted(sessions[s])
      /\ {<<v.approved, v.confidence>> : v \in Revision(sessions[s]).votes}
           = {<<TRUE, 90>>, <<FALSE, 10>>, <<TRUE, 80>>}
      /\ cret.op = "castVote" /\ sessions[s].status = "discussing"
      /\ sessions[s].currentRound < sessions[s].config.maxRounds
      /\ Len(sessions[s].discussions) = 1

Terminal == {"approved", "deadlocked"}

\* C14: a session that is approved or deadlocked keeps its status, currentRound,
\* revisions and discussions under every call; only cleanupSessions removes it.
C14_TerminalIsFinal ==
    [][\A s \in SessionIds :
         (IsSession(sessions[s]) /\ sessions[s].status \in Terminal) =>
           IF IsSession(sessions'[s])
           THEN /\ sessions'[s].status = sessions[s].status
                /\ sessions'[s].currentRound = sessions[s].currentRound
                /\ sessions'[s].revisions = sessions[s].revisions
                /\ sessions'[s].discussions = sessions[s].discussions
           ELSE cret'.op = "cleanupSessions"]_vars

\* the status changes C15 allows, each with the calls that may make it
Transitions ==
    { <<"initialized", "drafting", "startRound">>,
      <<"drafting", "voting", "submitWork">>,
      <<"voting", "approved", "castVote">>,     <<"voting", "approved", "checkConsensus">>,
      <<"voting", "deadlocked", "castVote">>,   <<"voting", "deadlocked", "checkConsensus">>,
      <<"voting", "discussing", "castVote">>,   <<"voting", "discussing", "checkConsensus">>,
      <<"discussing", "revising", "concludeDiscussion">>,
      <<"discussing", "revising", "addDiscussionComment">>,
      <<"revising", "drafting", "startRound">> }

\* C15: every change of a session's status is initialized->drafting
\* (startRound), drafting->voting (submitWork), voting->approved / deadlocked /
\* discussing (evaluation), discussing->revising (concludeDiscussion, also when
\* the comment limit concludes it) or revising->drafting (startRound).
C15_StatusTransitions ==
    [][\A s \in SessionIds :
         (/\ IsSession(sessions[s]) /\ IsSession(sessions'[s])
          /\ sessions'[s].status # sessions[s].status) =>
           <<sessions[s].status, sessions'[s].status, cret'.op>> \in Transitions]_vars

\* C16: a submitWork that throws leaves every session (work product, votes,
\* status) as it was and emits nothing; a submitWork that is accepted was made
\* by the author of the current round: the vote it records as the submitter's
\* is the author's, and the reviews it requests go to the other agents.
C16_OnlyAuthorSubmits ==
    [][cret'.op = "submitWork" =>
         /\ cret'.outcome = "throw" => (sessions' = sessions /\ emitted' = <<>>)
         /\ cret'.outcome = "ok" =>
              \A s \in SessionIds : IsSession(sessions'[s]) =>
                LET new == sessions'[s]
                    rev == Revision(new)
                IN /\ \A v \in rev.votes :
                        v.feedback = "Author submission" => v.agentId = rev.author
                   /\ \E v \in rev.votes : v.agentId = rev.author
                   /\ {emitted'[i].agentId : i \in 1..Len(emitted')}
                        = Range(new.agents) \ {rev.author}]_vars

\* a participant who is not the round's author has been refused
C16_Witness ==
    /\ cret.op = "submitWork" /\ cret.outcome = "throw" /\ cret.error = "not the author"
    /\ emitted = <<>>
    /\ \E s \in SessionIds :
         /\ IsSession(sessions[s]) /\ sessions[s].status = "drafting"
         /\ Revision(sessions[s]).votes = {}

\* C17: in every revision whose work has been submitted, the author's vote is
\* an approval with confidence 100, whatever votes have been cast since.
C17_AuthorApproves ==
    \A s \in SessionIds : IsSession(sessions[s]) =>
      \A i \in 1..Len(sessions[s].revisions) :
        LET rev == sessions[s].revisions[i] IN
        rev.workProduct # "" =>
          \A v \in rev.votes : v.agentId = rev.author => (v.approved /\ v.confidence = 100)

\* C18: a context is created active, and once its status is completed or
\* failed it keeps that status, in memory and in Redis.
C18_StatusOnlyForward ==
    [][/\ \A i \in 1..Len(heap') :
            IF i <= Len(heap)
            THEN heap[i].status \in {"completed", "failed"} => heap'[i].status = heap[i].status
            ELSE restarts' = 0 => heap'[i].status = "active"
       /\ \A t \in TaskIds :
            IF IsJson(redisCtx[t])
            THEN redisCtx[t].status \in {"completed", "failed"} =>
                   redisCtx'[t].status = redisCtx[t].status
            ELSE IsJson(redisCtx'[t]) => redisCtx'[t].status = "active"]_vars

\* C19: createTaskContext with a parent that the registry holds, in memory or
\* only in Redis, leaves the new task's id last in that parent's childTaskIds.
C19_ChildRegistered ==
    [][nextId' = nextId + 1 =>
         LET taskId       == nextId'
             parentTaskId == heap'[taskContexts'[taskId]].parentTaskId
         IN (parentTaskId # NULL
              /\ (taskContexts[parentTaskId] # NULL \/ IsJson(redisCtx[parentTaskId])))
            => IF taskContexts'[parentTaskId] # NULL
               THEN LET c == heap'[taskContexts'[parentTaskId]].childTaskIds
                    IN c # <<>> /\ Last(c) = taskId
               ELSE LET c == redisCtx'[parentTaskId].childTaskIds
                    IN c # <<>> /\ Last(c) = taskId]_vars

\* C20: no operation ends by raising a Redis failure; an operation that ends
\* has made its notification: task_created for createTaskContext, and
\* task_status_changed or task_complete for a call that found its context.
C20_StoreFailureNotFatal ==
    [][\A o \in ops \ ops' :
         (\A o2 \in ops' : o2.id # o.id) =>
            /\ ret'.outcome # "rejected"
            /\ o.kind = "createTaskContext" =>
                 \E i \in 1..Len(events') :
                    events'[i].name = "task_created" /\ events'[i].taskId = o.taskId
            /\ (o.kind = "updateTaskStatus" /\ o.pc \in {"uset", "usrem", "usadd"}) =>
                 /\ Len(events') = Len(events) + 1
                 /\ Last(events').name = "task_status_changed"]_vars

\* `new' is `old' with messages appended and, at most, acked flags of QUERY and
\* CORRECT messages turned from FALSE to TRUE
AppendOnly(old, new) ==
    /\ Len(old) <= Len(new)
    /\ \A i \in 1..Len(old) :
         /\ new[i].type = old[i].type
         /\ \/ new[i] = old[i]
            \/ /\ old[i].type \in {"QUERY", "CORRECT"}
               /\ ~old[i].acked
               /\ new[i] = [old[i] EXCEPT !.acked = TRUE]

\* C21: while a task stays in the registry its message log only grows: the log
\* before a step is a prefix of the log after it, message for message, but for
\* acked flags of QUERY/CORRECT messages that turn TRUE; the stored list only grows.
C21_LogAppendOnly ==
    [][\A t \in TaskIds :
         /\ (taskContexts[t] # NULL /\ taskContexts'[t] # NULL) =>
              AppendOnly(getTaskTranscript(t), heap'[taskContexts'[t]].messages)
         /\ AppendOnly(redisMsgs[t], redisMsgs'[t])]_vars

\* the bus_message notifications emitted for task t, in order
BusMessages(t) == SelectSeq(events[t], LAMBDA e : e.name = "bus_message")

\* C22: operations on one task do not interleave: of the messages in the task's
\* log at most the last one is still without its bus_message notification, and
\* the notifications were emitted in the order of the log.
C22_StoreThenNotify ==
    \A t \in TaskIds : (taskContexts[t] # NULL /\ restarts = 0) =>
      /\ Len(Mem(t).messages) <= Len(BusMessages(t)) + 1
      /\ \A k \in 1..Len(BusMessages(t)) : k <= Len(Mem(t).messages) =>
           BusMessages(t)[k].data.type = Mem(t).messages[k].type

\* the sum of the confidences of the approving (approved = TRUE) or rejecting
\* votes, in hundredths, a confidence of 0 adding 0
RECURSIVE ConfidenceOf(_, _)
ConfidenceOf(votes, approved) ==
    IF votes = {} THEN 0
    ELSE LET vote == CHOOSE v \in votes : TRUE
         IN (IF vote.approved = approved THEN vote.confidence ELSE 0)
            + ConfidenceOf(votes \ {vote}, approved)

\* C23: weighted mode: each vote adds confidence/100 to the approve or the
\* reject weight (0 for confidence 0), and an evaluated round is approved iff
\* the reject weight is zero (requireUnanimous) or the approve weight exceeds
\* the reject weight (otherwise).
C23_ConfidenceWeights ==
    [][\A s \in SessionIds :
         (Evaluated(s) /\ sessions'[s].config.enableWeightedVoting) =>
           LET new   == sessions'[s]
               votes == Revision(new).votes
           IN new.status = "approved" <=>
                IF new.config.requireUnanimous
                THEN ConfidenceOf(votes, FALSE) = 0
                ELSE ConfidenceOf(votes, TRUE) > ConfidenceOf(votes, FALSE)]_vars

\* C24: a session that is voting is still waiting for votes: its current
\* revision holds fewer votes than the session has agents, and its
\* votingComplete is FALSE.
C24_VotingAwaitsVotes ==
    \A s \in SessionIds :
      (IsSession(sessions[s]) /\ sessions[s].status = "voting") =>
        /\ Current(sessions[s].revisions) >= 1
        /\ Cardinality(Revision(sessions[s]).votes) < Len(sessions[s].agents)
        /\ ~Revision(sessions[s]).votingComplete

\* castVote has just recorded a vote of `agentId' in session s
VoteCast(s, agentId) ==
    /\ IsSession(sessions[s]) /\ IsSession(sessions'[s])
    /\ cret'.op = "castVote" /\ cret'.outcome = "ok"
    /\ emitted' # <<>>
    /\ emitted'[1].name = "consensus_vote_cast" /\ emitted'[1].agentId = agentId

\* C25: castVote changes the votes of the current revision only, and holds one
\* vote per agent; an agent's second vote in a round replaces its first, leaves
\* the number of votes as it was and does not evaluate the round.
C25_VotesKeyedByAgent ==
    [][\A s \in SessionIds : \A a \in Voters : VoteCast(s, a) =>
         LET old == sessions[s]
             new == sessions'[s]
             c   == Current(old.revisions)
         IN /\ Len(new.revisions) = c
            /\ \A i \in 1..(c - 1) : new.revisions[i] = old.revisions[i]
            /\ Cardinality({v \in new.revisions[c].votes : v.agentId = a}) = 1
            /\ {v \in new.revisions[c].votes : v.agentId # a}
                 = {v \in old.revisions[c].votes : v.agentId # a}
            /\ (\E v \in old.revisions[c].votes : v.agentId = a) =>
                 /\ Cardinality(new.revisions[c].votes) = Cardinality(old.revisions[c].votes)
                 /\ cret'.status = "voting"
                 /\ new.status = "voting"
                 /\ ~new.revisions[c].votingComplete]_vars

\* what C26 says of a call of `op', which requires the session's status to be
\* `status': the call changes no session with another status, and with no
\* session of that status it throws (`error', or not found for an id that has
\* no session), changes nothing and emits nothing
RequiresStatus(op, status, error) ==
    cret'.op = op =>
      /\ \A s \in SessionIds : sessions'[s] # sessions[s] =>
            IsSession(sessions[s]) /\ sessions[s].status = status
      /\ (\A s \in SessionIds : IsSession(sessions[s]) => sessions[s].status # status) =>
            /\ cret'.outcome = "throw"
            /\ \/ cret'.error = error
               \/ cret'.error = "not found" /\ \E s \in SessionIds : ~IsSession(sessions[s])
            /\ sessions' = sessions
            /\ emitted' = <<>>

\* C26: castVote on a session that is not voting, and addDiscussionComment on a
\* session that is not discussing, throw, leave every session as it was and
\* emit nothing.
C26_WrongStateNoEffect ==
    [][/\ RequiresStatus("castVote", "voting", "Session not in voting state")
       /\ RequiresStatus("addDiscussionComment", "discussing",
                         "Session not in discussion phase")]_vars

\* a vote has been refused on a session that is drafting its first round
C26_Witness ==
    /\ cret.op = "castVote" /\ cret.error = "Session not in voting state"
    /\ emitted = <<>>
    /\ \E s \in SessionIds :
         /\ IsSession(sessions[s]) /\ sessions[s].status = "drafting"
         /\ Current(sessions[s].revisions) = 1
         /\ Revision(sessions[s]).votes = {}

\* the comments a discussion thread of the session may hold
TurnLimit(session) == session.config.maxDiscussionTurns * Len(session.agents)

\* C27: in every discussion thread turnCount is the number of comments and is at
\* most maxDiscussionTurns * (number of agents); the addDiscussionComment that
\* brings turnCount to that limit concludes the thread and leaves the session
\* revising; a concluded thread is never changed again.
C27_DiscussionTurns ==
    [][\A s \in SessionIds : IsSession(sessions'[s]) =>
         LET new == sessions'[s] IN
         /\ \A i \in 1..Len(new.discussions) :
              /\ new.discussions[i].turnCount = Len(new.discussions[i].comments)
              /\ new.discussions[i].turnCount <= TurnLimit(new)
         /\ (/\ cret'.op = "addDiscussionComment" /\ cret'.outcome = "ok"
             /\ sessions'[s] # sessions[s]
             /\ Len(new.discussions) >= 1
             /\ Last(new.discussions).turnCount = TurnLimit(new)) =>
               /\ Last(new.discussions).concluded
               /\ new.status = "revising"
               /\ cret'.status = "revising"
         /\ IsSession(sessions[s]) =>
              \A i \in 1..Len(sessions[s].discussions) :
                sessions[s].discussions[i].concluded =>
                  new.discussions[i] = sessions[s].discussions[i]]_vars

\* the comment that filled the thread has concluded it
C27_Witness ==
    /\ cret.op = "addDiscussionComment" /\ cret.status = "revising"
    /\ \E s \in SessionIds :
         /\ IsSession(sessions[s]) /\ sessions[s].status = "revising"
         /\ Len(sessions[s].discussions) >= 1
         /\ Last(sessions[s].discussions).turnCount = TurnLimit(sessions[s])
         /\ Len(Last(sessions[s].discussions).comments) = 3
         /\ Last(sessions[s].discussions).concluded

\* C28: currentRound is the number of revisions and the i-th revision has
\* round = i; a new session has currentRound = 0, and currentRound changes
\* only in a startRound call, by +1.
C28_RoundCountsRevisions ==
    [][\A s \in SessionIds : IsSession(sessions'[s]) =>
         LET new == sessions'[s] IN
         /\ new.currentRound = Len(new.revisions)
         /\ \A i \in 1..Len(new.revisions) : new.revisions[i].round = i
         /\ IF IsSession(sessions[s])
            THEN /\ new.currentRound # sessions[s].currentRound =>
                      /\ cret'.op = "startRound"
                      /\ new.currentRound = sessions[s].currentRound + 1
                 /\ (cret'.op = "startRound" /\ new # sessions[s]) =>
                      /\ cret'.outcome = "ok"
                      /\ new.currentRound = sessions[s].currentRound + 1
                      /\ cret'.round = new.currentRound
                      /\ SubSeq(new.revisions, 1, Len(sessions[s].revisions))
                           = sessions[s].revisions
            ELSE new.currentRound = 0]_vars

\* the second round of a session has been started
C28_Witness ==
    /\ cret.op = "startRound" /\ cret.round = 2
    /\ \E s \in SessionIds :
         /\ IsSession(sessions[s])
         /\ sessions[s].currentRound = 2
         /\ Len(sessions[s].revisions) = 2
         /\ Last(sessions[s].revisions).round = 2

\* C29: discussions holds at most one thread per round, and a session that is
\* discussing has a last thread of the current round that is not concluded.
C29_OneThreadPerRound ==
    \A s \in SessionIds : IsSession(sessions[s]) =>
      LET d == sessions[s].discussions IN
      /\ \A i, j \in 1..Len(d) : i # j => d[i].round # d[j].round
      /\ sessions[s].status = "discussing" =>
           /\ Len(d) >= 1
           /\ Last(d).round = sessions[s].currentRound
           /\ ~Last(d).concluded

\* C30: with enableConfidenceSkip, a submitWork whose author's vote has a
\* confidence at or above confidenceThreshold leaves the session approved.
C30_ConfidenceSkip ==
    [][\A s \in SessionIds :
         (/\ IsSession(sessions[s]) /\ IsSession(sessions'[s])
          /\ cret'.op = "submitWork" /\ cret'.outcome = "ok"
          /\ sessions'[s].config.enableConfidenceSkip
          /\ \E v \in Revision(sessions'[s]).votes :
                /\ v.agentId = Revision(sessions'[s]).author
                /\ v.confidence >= sessions'[s].config.confidenceThreshold)
         => sessions'[s].status = "approved"]_vars

\* C31: a session leaves the registry only in a cleanupSessions call, and
\* cleanupSessions(0) removes the sessions that are approved or deadlocked and
\* were last updated before the current millisecond, and no other: a session
\* in another status, or updated in this millisecond, stays as it is.
C31_CleanupRemovesOldTerminal ==
    [][\A s \in SessionIds : IsSession(sessions[s]) =>
         LET old     == sessions[s]
             expired == old.status \in Terminal /\ now - old.updatedAt > 0
             cleanup == cret'.op = "cleanupSessions" /\ now' = now
         IN /\ ~IsSession(sessions'[s]) => cleanup /\ expired
            /\ (cleanup /\ expired) => ~IsSession(sessions'[s])
            /\ (cleanup /\ ~expired) => sessions'[s] = old]_vars

\* a session that was decided has been swept
C31_Witness ==
    /\ cret.op = "cleanupSessions" /\ cret.count = 1
    /\ nextSession = 1
    /\ ~IsSession(sessions[1])

\* C32: a task has one context object in memory: every operation in flight that
\* holds a context holds the registered one, and once the operations have
\* returned the transcript holds every message stored for the task (the
\* rehydrated ones and the new ones).
C32_MemoryAuthoritative ==
    /\ \A o \in ops : (o.ctx # NULL /\ taskContexts[o.taskId] # NULL) =>
          o.ctx = taskContexts[o.taskId]
    /\ (ops = {} /\ redisOn) =>
          \A t \in TaskIds : taskContexts[t] # NULL =>
             Len(getTaskTranscript(t)) = Len(redisMsgs[t])

\* C33: when the process restarts, every child registered under a parent is in
\* the childTaskIds of the parent's stored context, which is what the restarted
\* process rehydrates.
C33_LinksSurviveRestart ==
    [][restarts' = restarts + 1 =>
         \A p \in TaskIds : taskContexts[p] # NULL =>
            \A i \in 1..Len(Mem(p).childTaskIds) :
               /\ IsJson(redisCtx[p])
               /\ Mem(p).childTaskIds[i] \in Range(redisCtx[p].childTaskIds)]_vars

\* C34: when the process restarts, every message that is acked in memory is
\* acked in the stored list, which is what the restarted process rehydrates.
C34_AckSurvivesRestart ==
    [][restarts' = restarts + 1 =>
         \A t \in TaskIds : taskContexts[t] # NULL =>
            \A i \in 1..Len(Mem(t).messages) :
               Field(Mem(t).messages[i], "acked", FALSE) =>
                 /\ i <= Len(redisMsgs[t])
                 /\ Field(redisMsgs[t][i], "acked", FALSE)]_vars

\* C35: when WAKE returns, without Redis it returns the empty list, and with
\* Redis no context it returns is completed or failed: each is active.
C35_WakeReturnsActive ==
    [][(/\ ret'.kind = "WAKE"
        /\ \/ \E o \in ops : o.kind = "WAKE" /\ \A q \in ops' : q.id # o.id
           \/ ~redisOn /\ nOps' = nOps + 1 /\ ops' = ops) =>
         LET tasks == ret'.tasks IN
         /\ ~redisOn => tasks = <<>>
         /\ \A i \in 1..Len(tasks) : heap'[tasks[i]].status = "active"]_vars


\* C36: a consensus operation that raises leaves every session exactly as it
\* was before the call; in particular concludeDiscussion on a session without
\* a revision does not leave its status changed to revising after raising.
C36_RaiseLeavesSession ==
    [][cret'.outcome = "throw" => sessions' = sessions]_vars


\* C37: the step of ACK that follows its lookup changes the acked flag of at
\* most one message, and only of a message of the ACK's task that has
\* requiresAck and whose timestamp is the referenced id; when no message of the
\* log matches, it only appends its own ACK message; every other message of
\* every task is left as it was, and the ACK returns without failing.
C37_AckFlipsAtMostOne ==
    [][\A o \in ops :
         /\ (/\ o.kind = "ACK" /\ o.pc = "got" /\ o.ctx # NULL
             /\ \E q \in ops' : q.id = o.id /\ q.pc = "saved") =>
              LET old     == heap[o.ctx].messages
                  new     == heap'[o.ctx].messages
                  changed == {i \in 1..Len(old) : new[i] # old[i]}
                  matches == {i \in 1..Len(old) :
                                /\ old[i].timestamp = o.ref
                                /\ Field(old[i], "requiresAck", FALSE)}
              IN /\ heap[o.ctx].taskId = o.taskId
                 /\ Len(new) = Len(old) + 1
                 /\ Last(new).type = "ACK" /\ Last(new).referencedMessage = o.ref
                 /\ heap'[o.ctx] = [heap[o.ctx] EXCEPT !.messages = new]
                 /\ \A h \in DOMAIN heap : h # o.ctx => heap'[h] = heap[h]
                 /\ Cardinality(changed) <= 1
                 /\ changed \subseteq matches
                 /\ \A i \in changed : new[i] = [old[i] EXCEPT !.acked = TRUE]
                 /\ matches = {} => changed = {}
                 /\ \A t \in TaskIds : t # o.taskId => redisMsgs'[t] = redisMsgs[t]
         /\ (/\ o.kind = "ACK" /\ o.pc = "saved"
             /\ \A q \in ops' : q.id # o.id) => ret'.outcome = "ok"]_vars

\* an ACK that referenced an id no message of the log carries with requiresAck
\* was appended next to a QUERY that is still not acked
C37_Witness ==
    \E t \in TaskIds : taskContexts[t] # NULL /\
      LET log == Mem(t).messages IN
      \E i, j \in 1..Len(log) :
        /\ log[i].type = "QUERY" /\ ~log[i].acked
        /\ i < j /\ log[j].type = "ACK"
        /\ \A k \in 1..Len(log) :
             ~(log[k].timestamp = log[j].referencedMessage
               /\ Field(log[k], "requiresAck", FALSE))


\* C38: a session that requires unanimity becomes approved only when every
\* agent of session.agents has an approving vote in the final revision: votes
\* of ids that are not participants do not make up the number of votes.
C38_ApprovedByEveryParticipant ==
    [][\A s \in SessionIds :
         (/\ IsSession(sessions[s]) /\ IsSession(sessions'[s])
          /\ sessions[s].status # "approved" /\ sessions'[s].status = "approved"
          /\ sessions'[s].config.requireUnanimous) =>
            \A i \in 1..Len(sessions'[s].agents) :
               \E v \in Revision(sessions'[s]).votes :
                  v.agentId = sessions'[s].agents[i] /\ v.approved]_vars


\* the outcome checkConsensus reaches on the session's votes in the given mode
OutcomeOf(session, weighted) ==
    IF ConsensusApproved([session.config EXCEPT !.enableWeightedVoting = weighted],
                         Revision(session).votes)
    THEN "approved"
    ELSE IF RoundsExhausted(session) THEN "deadlocked" ELSE "discussing"

\* C39: with requireUnanimous, an evaluation reaches the outcome (approved,
\* discussing, deadlocked) that both the weighted and the equal-weight mode
\* reach on the votes of the round, and it is approved exactly when no vote is
\* a rejection.
C39_WeightedEqualsEqualWeight ==
    [][\A s \in SessionIds :
         (Evaluated(s) /\ sessions'[s].config.requireUnanimous) =>
           LET new == sessions'[s] IN
           /\ OutcomeOf(new, TRUE) = OutcomeOf(new, FALSE)
           /\ new.status = OutcomeOf(new, TRUE)
           /\ cret'.status = new.status
           /\ (new.status = "approved") <=> (Rejections(Revision(new).votes) = {})]_vars

\* a weighted round whose only rejection has confidence 0 was evaluated and
\* not approved
C39_Witness ==
    \E s \in SessionIds :
      /\ IsSession(sessions[s])
      /\ sessions[s].config.enableWeightedVoting /\ sessions[s].config.requireUnanimous
      /\ cret.op \in {"castVote", "checkConsensus"} /\ cret.outcome = "ok"
      /\ cret.status = "discussing" /\ sessions[s].status = "discussing"
      /\ \E v \in Revision(sessions[s]).votes : ~v.approved
      /\ \A v \in Revision(sessions[s]).votes : ~v.approved => v.confidence = 0


\* C40: when callers follow the protocol, under fairness every session
\* eventually reaches approved or deadlocked, and no session ever counts more
\* rounds than its maxRounds.
C40_ProtocolTerminates ==
    /\ [](\A s \in SessionIds :
            IsSession(sessions[s]) =>
              sessions[s].currentRound <= sessions[s].config.maxRounds)
    /\ \A s \in SessionIds :
         IsSession(sessions[s]) ~>
           (IsSession(sessions[s]) /\ sessions[s].status \in Terminal)

\* a session went through a concluded discussion and reached its verdict in
\* its second and last round
C40_Witness ==
    \E s \in SessionIds :
      /\ IsSession(sessions[s])
      /\ sessions[s].status \in Terminal
      /\ sessions[s].currentRound = 2 /\ sessions[s].config.maxRounds = 2
      /\ Len(sessions[s].revisions) = 2
      /\ Len(sessions[s].discussions) = 1 /\ sessions[s].discussions[1].concluded
      /\ AllVoted(sessions[s])
====
